---- MODULE Spec2Model ----
(***************************************************************************)
(* A model of selprotopy: the binary-frame preamble and parsers of         *)
(* selprotopy/protocol/parser/__init__.py, the retry decorator of          *)
(* selprotopy/common.py and the session engine of                          *)
(* selprotopy/client/base.py.                                              *)
(*                                                                         *)
(* Byte strings are sequences of integers 0..255.  Python's 0-based        *)
(* indices are kept in the operators that model indexing (PyGet, PySlice), *)
(* so that negative indices and out-of-range reads behave as in the code.  *)
(* An exception is a record field err naming the exception class.          *)
(***************************************************************************)
EXTENDS Integers, Sequences, FiniteSets, TLC

VARIABLES
    data,       \* frame spec: the byte string handed to the parser
    op,         \* frame spec: the parser function that was applied ("none" before)
    result,     \* frame spec: [err, val] the function's outcome
    client,     \* the attributes of the SelClient object
    pending,    \* the replies the transport holds for the coming reads
    wire,       \* the writes of the current (or last) call, in order
    pc,         \* "idle", the place the current call is at, or "hung"
    call,       \* the current (or last) public call and its argument
    attempts,   \* retry wrapper: its local attempts
    cnt,        \* retry wrapper: its local cnt
    execs,      \* executions of the step by the current wrapper invocation
    fed,        \* the replies handed to the transport since the step was entered
    lastErr,    \* the exception of the step's last execution
    done,       \* the last wrapper invocation that ended
    raised,     \* the exception the last call raised, "none", or "running"
    ret,        \* the value the last poll returned
    faults      \* deviating pieces handed out so far

sessionVars == <<client, pending, wire, pc, call, attempts, cnt, execs, fed, lastErr, done,
                 raised, ret, faults>>
vars == <<data, op, result, client, pending, wire, pc, call, attempts, cnt, execs, fed,
          lastErr, done, raised, ret, faults>>

(***************************************************************************)
(* Python helpers                                                          *)
(***************************************************************************)
RECURSIVE SumSeq(_)
SumSeq(s) == IF s = <<>> THEN 0 ELSE Head(s) + SumSeq(Tail(s))

\* s[i] for a Python index i (negative counts from the end); -1 models IndexError
PyInRange(s, i) == (i >= 0 /\ i < Len(s)) \/ (i < 0 /\ -i <= Len(s))
PyGet(s, i) == IF i >= 0 THEN s[i + 1] ELSE s[Len(s) + i + 1]

\* the clamped position of a slice bound
PyBound(s, i) ==
    IF i < 0 THEN (IF Len(s) + i < 0 THEN 0 ELSE Len(s) + i)
    ELSE (IF i > Len(s) THEN Len(s) ELSE i)

\* s[a:b]
PySlice(s, a, b) == SubSeq(s, PyBound(s, a) + 1, PyBound(s, b))
\* s[a:]
PyFrom(s, a) == SubSeq(s, PyBound(s, a) + 1, Len(s))

\* bytes.find(sub): the 0-based offset of the first occurrence, -1 when absent
IsAt(s, sub, k) == k + Len(sub) <= Len(s) /\ SubSeq(s, k + 1, k + Len(sub)) = sub
Occurs(s, sub) == {k \in 0..Len(s) : IsAt(s, sub, k)}
Min(S) == CHOOSE x \in S : \A y \in S : x <= y
Find(s, sub) == IF Occurs(s, sub) = {} THEN -1 ELSE Min(Occurs(s, sub))
Contains(s, sub) == Occurs(s, sub) # {}
EndsWith(s, sub) == Len(s) >= Len(sub) /\ PyFrom(s, Len(s) - Len(sub)) = sub

(***************************************************************************)
(* selprotopy/commands.py                                                  *)
(***************************************************************************)
A5 == <<165>>
RELAY_DEFINITION == <<165, 192>>
FM_CONFIG_BLOCK == <<165, 193>>
FM_DEMAND_CONFIG_BLOCK == <<165, 194>>
FM_PEAK_CONFIG_BLOCK == <<165, 195>>
FO_CONFIG_BLOCK == <<165, 206>>
FAST_METER_REGULAR == <<165, 209>>
FAST_METER_DEMAND == <<165, 210>>
FAST_METER_PEAK_DEMAND == <<165, 211>>
FAST_MSG_CONFIG_BLOCK == <<165, 70>>
CR == <<13, 10>>
LEVEL_0 == <<61>>
PROMPT == CR \o LEVEL_0

(***************************************************************************)
(* selprotopy/common.py                                                    *)
(***************************************************************************)
eval_checksum(bytes, constrain) ==
    IF constrain THEN SumSeq(bytes) % 256 ELSE SumSeq(bytes)

\* format(number, '04b') reversed: the bits of number, least significant first,
\* at least four of them
RECURSIVE BitsLsb(_)
BitsLsb(n) == IF n = 0 THEN <<>> ELSE <<(n % 2) = 1>> \o BitsLsb(n \div 2)
RECURSIVE Falses(_)
Falses(n) == IF n <= 0 THEN <<>> ELSE <<FALSE>> \o Falses(n - 1)
RECURSIVE Reverse(_)
Reverse(s) == IF s = <<>> THEN <<>> ELSE Reverse(Tail(s)) \o <<Head(s)>>

int_to_bool_list(number, byte_like, reverse) ==
    LET bin_list == BitsLsb(number) \o Falses(4 - Len(BitsLsb(number)))
        padded == IF byte_like /\ (Len(bin_list) % 8) # 0
                  THEN bin_list \o Falses(((Len(bin_list) \div 8) + 1) * 8 - Len(bin_list))
                  ELSE bin_list
    IN IF reverse THEN Reverse(padded) ELSE padded

(***************************************************************************)
(* The frame preamble: _validate_checksum and _cast_bytearray              *)
(***************************************************************************)
Ok(v) == [err |-> "none", val |-> v]
Raise(e) == [err |-> e, val |-> <<>>]

\* the validator with the checksum byte itself included in the sum
_validate_checksum_inclusive(byte_array) ==
    IF ~PyInRange(byte_array, 2) THEN "IndexError"
    ELSE LET data_length == PyGet(byte_array, 2)
         IN IF ~PyInRange(byte_array, data_length - 1) THEN "MalformedByteArray"
            ELSE LET checksum_byte == PyGet(byte_array, data_length - 1)
                     bytes == PySlice(byte_array, 0, data_length)
                     confirmed == eval_checksum(bytes, TRUE)
                 IN IF checksum_byte # confirmed THEN "ChecksumFail" ELSE "none"

\* byte_array[2] is read outside the try block: a buffer of one or two bytes
\* raises a bare IndexError.  byte_array[data_length - 1] is read inside it.
_validate_checksum(byte_array) ==
    IF ~PyInRange(byte_array, 2) THEN "IndexError"
    ELSE LET data_length == PyGet(byte_array, 2)
         IN IF ~PyInRange(byte_array, data_length - 1) THEN "MalformedByteArray"
            ELSE LET checksum_byte == PyGet(byte_array, data_length - 1)
                     bytes == PySlice(byte_array, 0, data_length - 1)
                     confirmed == eval_checksum(bytes, TRUE)
                 IN IF checksum_byte # confirmed THEN "ChecksumFail" ELSE "none"

\* bytearray.split(b'=')[0]: what precedes the first '='
BeforeFirst(s, sub) == IF Contains(s, sub) THEN PySlice(s, 0, Find(s, sub)) ELSE s

_cast_bytearray(bytes) ==
    LET Validated(byte_array) ==
            LET verdict == _validate_checksum(byte_array)
            IN IF verdict # "none" THEN Raise(verdict) ELSE Ok(byte_array)
        WithoutPrompt(no_prompt) ==
            Validated(IF EndsWith(no_prompt, CR)
                      THEN PySlice(no_prompt, 0, Len(no_prompt) - 2)
                      ELSE no_prompt)
        FromHead(from_head) ==
            WithoutPrompt(IF Contains(from_head, LEVEL_0)
                          THEN BeforeFirst(from_head, LEVEL_0)
                          ELSE from_head)
        offset == Find(bytes, A5)
    IN IF offset = -1 THEN Raise("MissingA5Head") ELSE FromHead(PyFrom(bytes, offset))

(***************************************************************************)
(* relay_definition_block                                                  *)
(***************************************************************************)
ProtocolNames == <<"SEL_STANDARD", "SEL_LMD", "MODBUS", "SY_MAX", "R_SEL", "DNP3", "R6_SEL">>

\* for _ in range(fmmessagesup): slices never raise, short ones are returned
RECURSIVE FmCommandInfo(_, _, _)
FmCommandInfo(b, ind, n) ==
    IF n = 0 THEN <<>>
    ELSE <<[configcommand |-> PySlice(b, ind, ind + 2),
            command |-> PySlice(b, ind + 2, ind + 4)]>>
         \o FmCommandInfo(b, ind + 4, n - 1)

RECURSIVE StatusFlagInfo(_, _, _)
StatusFlagInfo(b, ind, n) ==
    IF n = 0 THEN <<>>
    ELSE <<[statusbit |-> PySlice(b, ind, ind + 2),
            affectedcommand |-> PySlice(b, ind + 2, ind + 8)]>>
         \o StatusFlagInfo(b, ind + 8, n - 1)

\* One protocol record.  proto_desc is a local of the function that the
\* if/elif chain leaves untouched for a family code above 6: the first record
\* then reads an unbound local, a later one appends the previous record again.
ProtoDesc(b, ind, prev) ==
    LET bits == int_to_bool_list(PyGet(b, ind), FALSE, FALSE) \o <<FALSE, FALSE>>
        prot == PyGet(b, ind + 1)
    IN IF prot \in {0, 1}
       THEN [type |-> ProtocolNames[prot + 1], fast_op_en |-> bits[1], fast_msg_en |-> bits[2]]
       ELSE IF prot <= 6 THEN [type |-> ProtocolNames[prot + 1]]
       ELSE prev

Unbound == [type |-> "unbound"]

\* the protocol loop with the capability bits of every family honoured
RECURSIVE RdProtocolsAnyFamily(_, _, _, _)
RdProtocolsAnyFamily(b, ind, n, acc) ==
    IF n = 0 \/ acc.err # "none" THEN acc
    ELSE IF ~PyInRange(b, ind) \/ ~PyInRange(b, ind + 1)
         THEN [acc EXCEPT !.err = "ValueError"]
         ELSE LET desc == ProtoDesc(b, ind, acc.prev)
                  bits == int_to_bool_list(PyGet(b, ind), FALSE, FALSE) \o <<FALSE, FALSE>>
              IN IF desc = Unbound
                 THEN [acc EXCEPT !.err = "UnboundLocalError"]
                 ELSE RdProtocolsAnyFamily(b, ind + 2, n - 1,
                        [err |-> "none",
                         protocols |-> Append(acc.protocols, desc),
                         fop |-> IF bits[1] THEN FO_CONFIG_BLOCK ELSE acc.fop,
                         fmsg |-> IF bits[2] THEN FAST_MSG_CONFIG_BLOCK ELSE acc.fmsg,
                         prev |-> desc])

\* acc = [err, protocols, fop, fmsg, prev]
RECURSIVE RdProtocols(_, _, _, _)
RdProtocols(b, ind, n, acc) ==
    IF n = 0 \/ acc.err # "none" THEN acc
    ELSE IF ~PyInRange(b, ind) \/ ~PyInRange(b, ind + 1)
         THEN [acc EXCEPT !.err = "ValueError"]
         ELSE LET desc == ProtoDesc(b, ind, acc.prev)
                  prot == PyGet(b, ind + 1)
                  bits == int_to_bool_list(PyGet(b, ind), FALSE, FALSE) \o <<FALSE, FALSE>>
              IN IF desc = Unbound
                 THEN [acc EXCEPT !.err = "UnboundLocalError"]
                 ELSE RdProtocols(b, ind + 2, n - 1,
                        [err |-> "none",
                         protocols |-> Append(acc.protocols, desc),
                         fop |-> IF prot \in {0, 1} /\ bits[1] THEN FO_CONFIG_BLOCK ELSE acc.fop,
                         fmsg |-> IF prot \in {0, 1} /\ bits[2] THEN FAST_MSG_CONFIG_BLOCK ELSE acc.fmsg,
                         prev |-> desc])

RelayDefinitionStruct(b) ==
    IF Len(b) < 6 THEN Raise("ValueError")
    ELSE LET numprotocolsup == PyGet(b, 3)
             fmmessagesup == PyGet(b, 4)
             statusflagssup == PyGet(b, 5)
             ind1 == 6 + 4 * fmmessagesup
             ind2 == ind1 + 1
             ind3 == ind2 + 8 * statusflagssup
             Struct(protos) ==
                 IF protos.err # "none" THEN Raise(protos.err)
                 ELSE Ok([command |-> PySlice(b, 0, 2),
                          length |-> PyGet(b, 2),
                          numprotocolsup |-> numprotocolsup,
                          fmmessagesup |-> fmmessagesup,
                          statusflagssup |-> statusflagssup,
                          protocolinfo |-> <<>>,
                          fmcommandinfo |-> FmCommandInfo(b, 6, fmmessagesup),
                          fmtype |-> PyGet(b, ind1),
                          statusflaginfo |-> StatusFlagInfo(b, ind2, statusflagssup),
                          protocols |-> protos.protocols,
                          fopcommandinfo |-> protos.fop,
                          fmsgcommandinfo |-> protos.fmsg])
         IN IF ~PyInRange(b, ind1) THEN Raise("ValueError")
            ELSE Struct(RdProtocols(b, ind3, numprotocolsup,
                            [err |-> "none", protocols |-> <<>>, fop |-> <<>>,
                             fmsg |-> <<>>, prev |-> Unbound]))

relay_definition_block(bytes) ==
    LET Parsed(cast) == IF cast.err # "none" THEN cast ELSE RelayDefinitionStruct(cast.val)
    IN Parsed(_cast_bytearray(bytes))

(***************************************************************************)
(* fast_meter_configuration_block                                          *)
(***************************************************************************)
RECURSIVE Pow256(_)
Pow256(n) == IF n = 0 THEN 1 ELSE 256 * Pow256(n - 1)
RECURSIVE UnsignedBE(_)
UnsignedBE(s) == IF s = <<>> THEN 0 ELSE Head(s) * Pow256(Len(s) - 1) + UnsignedBE(Tail(s))
\* int.from_bytes(s, byteorder='big', signed=True)
SignedBE(s) ==
    IF s = <<>> THEN 0
    ELSE IF Head(s) >= 128 THEN UnsignedBE(s) - Pow256(Len(s)) ELSE UnsignedBE(s)

NonZero(s) == SelectSeq(s, LAMBDA c : c # 0)

\* acc = [err, ind, channels]
RECURSIVE AnalogChannels(_, _, _)
AnalogChannels(b, n, acc) ==
    IF n = 0 \/ acc.err # "none" THEN acc
    ELSE LET ind == acc.ind + 6
         IN IF ~PyInRange(b, ind) \/ ~PyInRange(b, ind + 1)
            THEN [acc EXCEPT !.err = "ValueError"]
            ELSE AnalogChannels(b, n - 1,
                    [err |-> "none",
                     ind |-> ind + 4,
                     channels |-> Append(acc.channels,
                        [name |-> NonZero(PySlice(b, acc.ind, acc.ind + 6)),
                         channeltype |-> PyGet(b, ind),
                         factortype |-> PyGet(b, ind + 1),
                         scaleoffset |-> SignedBE(PySlice(b, ind, ind + 2))])])

CalcTypeDesc(val) ==
    CASE val = 0 -> "standard-power"
      [] val = 1 -> "2-1/2 element delta power"
      [] val = 2 -> "voltages only"
      [] val = 3 -> "currents only"
      [] val = 4 -> "single-phase IA and VA only"
      [] val = 5 -> "standard-power with two sets of currents"
      [] OTHER -> "2-1/2 element delta power with two sets of currents"

Connection(dp, dn) == IF dn THEN "AC-BA-CB" ELSE IF dp THEN "AB-BC-CA" ELSE "Y"

\* One calculation block read at ind; the loop leaves ind three bytes further.
CalcBlock(b, ind) ==
    LET line == PyGet(b, ind)
        bits == int_to_bool_list(line, TRUE, FALSE)
        at == ind + 2
        ix == ind + 3
    IN [line |-> line,
        rotation |-> IF bits[1] THEN "ACB" ELSE "ABC",
        voltage |-> Connection(bits[2], bits[3]),
        current |-> Connection(bits[4], bits[5]),
        type |-> PyGet(b, ind + 1),
        typedesc |-> CalcTypeDesc(PyGet(b, ind + 1)),
        skewoffset |-> PySlice(b, at, at + 2),
        rsoffset |-> PySlice(b, at + 2, at + 4),
        xsoffset |-> PySlice(b, at + 4, at + 6),
        iaindex |-> PyGet(b, ix),
        ibindex |-> PyGet(b, ix + 1),
        icindex |-> PyGet(b, ix + 2),
        vaindex |-> PyGet(b, ix + 3),
        vbindex |-> PyGet(b, ix + 4),
        vcindex |-> PyGet(b, ix + 5)]

\* acc = [err, ind, blocks]
RECURSIVE CalcBlocks(_, _, _)
CalcBlocks(b, n, acc) ==
    IF n = 0 \/ acc.err # "none" THEN acc
    ELSE IF ~PyInRange(b, acc.ind + 8)
         THEN [acc EXCEPT !.err = "ValueError"]
         ELSE CalcBlocks(b, n - 1,
                [err |-> "none",
                 ind |-> acc.ind + 3,
                 blocks |-> Append(acc.blocks, CalcBlock(b, acc.ind))])

FastMeterConfigStruct(b) ==
    LET Struct(analogs, calcs) ==
            IF calcs.err # "none" THEN Raise(calcs.err)
            ELSE Ok([command |-> PySlice(b, 0, 2),
                     length |-> PyGet(b, 2),
                     numstatusflags |-> PyGet(b, 3),
                     scalefactloc |-> PyGet(b, 4),
                     numscalefact |-> PyGet(b, 5),
                     numanalogins |-> PyGet(b, 6),
                     numsampperchan |-> PyGet(b, 7),
                     numdigitalbank |-> PyGet(b, 8),
                     numcalcblocks |-> PyGet(b, 9),
                     analogchanoff |-> SignedBE(PySlice(b, 10, 12)),
                     timestmpoffset |-> SignedBE(PySlice(b, 12, 14)),
                     digitaloffset |-> SignedBE(PySlice(b, 14, 16)),
                     analogchannels |-> analogs.channels,
                     calcblocks |-> calcs.blocks])
        AfterAnalogs(analogs) ==
            IF analogs.err # "none" THEN Raise(analogs.err)
            ELSE Struct(analogs, CalcBlocks(b, PyGet(b, 9),
                            [err |-> "none", ind |-> analogs.ind, blocks |-> <<>>]))
    IN IF Len(b) < 10 THEN Raise("ValueError")
       ELSE AfterAnalogs(AnalogChannels(b, PyGet(b, 6),
                            [err |-> "none", ind |-> 16, channels |-> <<>>]))

fast_meter_configuration_block(bytes) ==
    LET Parsed(cast) == IF cast.err # "none" THEN cast ELSE FastMeterConfigStruct(cast.val)
    IN Parsed(_cast_bytearray(bytes))

(***************************************************************************)
(* fast_op_configuration_block                                             *)
(***************************************************************************)
\* acc = [err, ind, items]
RECURSIVE BreakerConfig(_, _, _)
BreakerConfig(b, n, acc) ==
    IF n <= 0 \/ acc.err # "none" THEN acc
    ELSE IF ~PyInRange(b, acc.ind) \/ ~PyInRange(b, acc.ind + 1)
         THEN [acc EXCEPT !.err = "ValueError"]
         ELSE BreakerConfig(b, n - 1,
                [err |-> "none", ind |-> acc.ind + 2,
                 items |-> Append(acc.items,
                    [open |-> PyGet(b, acc.ind), close |-> PyGet(b, acc.ind + 1)])])

RECURSIVE RemoteBitConfig(_, _, _, _)
RemoteBitConfig(b, n, pulse, acc) ==
    IF n <= 0 \/ acc.err # "none" THEN acc
    ELSE IF ~PyInRange(b, acc.ind) \/ ~PyInRange(b, acc.ind + 1)
            \/ (pulse /\ ~PyInRange(b, acc.ind + 2))
         THEN [acc EXCEPT !.err = "ValueError"]
         ELSE RemoteBitConfig(b, n - 1, pulse,
                [err |-> "none", ind |-> acc.ind + (IF pulse THEN 3 ELSE 2),
                 items |-> Append(acc.items,
                    IF pulse
                    THEN [clear |-> PyGet(b, acc.ind), set |-> PyGet(b, acc.ind + 1),
                          pulse |-> PyGet(b, acc.ind + 2)]
                    ELSE [clear |-> PyGet(b, acc.ind), set |-> PyGet(b, acc.ind + 1)])])

FastOpConfigStruct(b) ==
    LET numbreakers == PyGet(b, 3)
        numremotebits == SignedBE(PySlice(b, 4, 6))
        pulsesupported == PyGet(b, 6)
        Struct(breakers, remotes) ==
            IF remotes.err # "none" THEN Raise(remotes.err)
            ELSE Ok([command |-> PySlice(b, 0, 2),
                     length |-> PyGet(b, 2),
                     numbreakers |-> numbreakers,
                     numremotebits |-> numremotebits,
                     pulsesupported |-> pulsesupported,
                     breakerconfig |-> breakers.items,
                     remotebitconfig |-> remotes.items])
        AfterBreakers(breakers) ==
            IF breakers.err # "none" THEN Raise(breakers.err)
            ELSE Struct(breakers,
                        RemoteBitConfig(b, numremotebits, pulsesupported = 1,
                            [err |-> "none", ind |-> breakers.ind, items |-> <<>>]))
    IN IF Len(b) < 8 THEN Raise("ValueError")
       ELSE AfterBreakers(BreakerConfig(b, numbreakers,
                              [err |-> "none", ind |-> 8, items |-> <<>>]))

fast_op_configuration_block(bytes) ==
    LET Parsed(cast) == IF cast.err # "none" THEN cast ELSE FastOpConfigStruct(cast.val)
    IN Parsed(_cast_bytearray(bytes))

(***************************************************************************)
(* The ASCII side of the protocol: selprotopy/commands.py and the prompt   *)
(* test of the parser                                                      *)
(***************************************************************************)
ID == <<73, 68>> \o CR                    \* b"ID" + CR
DNA == <<68, 78, 65>> \o CR               \* b"DNA" + CR
QUIT == <<81, 85, 73>> \o CR              \* b"QUI" + CR
GO_ACC == <<65, 67, 67>> \o CR            \* b"ACC" + CR
GO_2AC == <<50, 65, 67>> \o CR            \* b"2AC" + CR
PASS_ACC == <<79, 84, 84, 69, 82>>        \* b"OTTER"
PASS_2AC == <<84, 65, 73, 76>>            \* b"TAIL"
LEVEL_1 == <<61, 62>>                     \* b"=>"
LEVEL_2 == <<61, 62, 62>>                 \* b"=>>"
LEVEL_C == <<61, 61, 62, 62>>             \* b"==>>"
\* "Invalid Command", compared with the bytes read from the relay
INVALID_COMMAND_STR ==
    <<73, 110, 118, 97, 108, 105, 100, 32, 67, 111, 109, 109, 97, 110, 100>>
Invalid == <<73, 110, 118, 97, 108, 105, 100>>   \* b'Invalid'

\* bytes.decode('utf-8') succeeds: the strict UTF-8 grammar.  Every byte is
\* ASCII, a lead byte followed by its continuation bytes, or a continuation
\* byte that a lead byte at most three places before it accounts for.
IsCont(b) == b >= 128 /\ b <= 191
Utf8Size(b) ==
    IF b < 128 THEN 1
    ELSE IF b >= 194 /\ b <= 223 THEN 2
    ELSE IF b >= 224 /\ b <= 239 THEN 3
    ELSE IF b >= 240 /\ b <= 244 THEN 4
    ELSE 0
Utf8LeadOk(s, k) ==
    LET b == s[k]
        n == Utf8Size(b)
    IN /\ k + n - 1 <= Len(s)
       /\ \A j \in (k + 1)..(k + n - 1) : IsCont(s[j])
       /\ (b = 224 => s[k + 1] >= 160)
       /\ (b = 237 => s[k + 1] <= 159)
       /\ (b = 240 => s[k + 1] >= 144)
       /\ (b = 244 => s[k + 1] <= 143)
Utf8Ok(s) ==
    \A k \in 1..Len(s) :
        IF IsCont(s[k])
        THEN \E j \in 1..3 : /\ k - j >= 1
                             /\ Utf8Size(s[k - j]) > j
                             /\ \A i \in (k - j + 1)..(k - 1) : IsCont(s[i])
        ELSE Utf8Size(s[k]) > 0 /\ Utf8LeadOk(s, k)

\* clean_prompt(data): the decoded text holds "=\r\n"; bytes that do not
\* decode stay bytes, and the compiled str pattern refuses them (TypeError)
RE_CLEAN_PROMPT_CHARS == <<61, 13, 10>>
clean_prompt(bytes) ==
    IF ~Utf8Ok(bytes) THEN [err |-> "TypeError", val |-> FALSE]
    ELSE [err |-> "none", val |-> Contains(bytes, RE_CLEAN_PROMPT_CHARS)]

(***************************************************************************)
(* Transport helpers of SelClient.  rx is the sequence of replies the      *)
(* transport will hand to the coming reads, one per read; a read past its  *)
(* end returns b'' (the read timed out).  Every helper returns the writes  *)
(* it made (tx) and the replies it left unread (rx).                       *)
(***************************************************************************)
ReadHead(rx) == IF rx = <<>> THEN <<>> ELSE Head(rx)
ReadTail(rx) == IF rx = <<>> THEN <<>> ELSE Tail(rx)

\* bytes.replace(b'\n', b'').replace(b'\r', b'')
StripCrLf(s) == SelectSeq(s, LAMBDA b : b # 10 /\ b # 13)

MaxIdleReads == 10

RECURSIVE ReadCommandLoop(_, _, _, _)
ReadCommandLoop(command, response, i, rx) ==
    IF Find(response, command) = -1 /\ i < MaxIdleReads
    THEN LET grown == response \o ReadHead(rx)
             j == IF Len(grown) # Len(response) THEN 0 ELSE i + 1
         IN IF Contains(grown, INVALID_COMMAND_STR)
            THEN [err |-> "InvalidCommand", val |-> grown, rx |-> ReadTail(rx)]
            ELSE ReadCommandLoop(command, grown, j, ReadTail(rx))
    ELSE [err |-> "none", val |-> response, rx |-> rx]

_read_command_response(command, rx) ==
    ReadCommandLoop(StripCrLf(command), <<>>, 0, rx)

\* _clear_input_buffer: eager reads until one returns b''
RECURSIVE _clear_input_buffer(_)
_clear_input_buffer(rx) ==
    IF ReadHead(rx) = <<>> THEN ReadTail(rx) ELSE _clear_input_buffer(ReadTail(rx))

CleanCount == 3

\* _read_clean_prompt: CR is written and the reply appended to one growing
\* response until the prompt test succeeded CleanCount times in a row.  Once
\* the transport is silent and the test fails, the loop never ends (hung).
RECURSIVE CleanPromptLoop(_, _, _, _)
CleanPromptLoop(count, response, rx, tx) ==
    LET sent == Append(tx, CR)
        Tested(grown, clean) ==
            IF clean.err # "none"
            THEN [err |-> clean.err, hung |-> FALSE, tx |-> sent, rx |-> ReadTail(rx)]
            ELSE IF ~clean.val /\ ReadTail(rx) = <<>>
            THEN [err |-> "none", hung |-> TRUE, tx |-> sent, rx |-> <<>>]
            ELSE CleanPromptLoop(IF clean.val THEN count + 1 ELSE 0, grown,
                                 ReadTail(rx), sent)
        Grown(grown) == Tested(grown, clean_prompt(grown))
    IN IF count < CleanCount
       THEN Grown(response \o ReadHead(rx))
       ELSE [err |-> "none", hung |-> FALSE, tx |-> tx, rx |-> _clear_input_buffer(rx)]

_read_clean_prompt(rx) == CleanPromptLoop(0, <<>>, rx, <<>>)

\* the level and its description, as access_level returns them
LevelNames == <<"ACC", "2AC", "CAL">>
LevelPair(level) ==
    [val |-> level, desc |-> IF level = 0 THEN "" ELSE LevelNames[level]]

\* the detection that looks for the lowest level first
access_level_lowest_first(rx) ==
    LET resp == ReadHead(rx) \o ReadHead(ReadTail(rx))
        level == IF Contains(resp, LEVEL_1) THEN 1
                 ELSE IF Contains(resp, LEVEL_2) THEN 2
                 ELSE IF Contains(resp, LEVEL_C) THEN 3
                 ELSE 0
    IN [val |-> level, desc |-> LevelPair(level).desc,
        tx |-> <<CR, CR>>, rx |-> ReadTail(ReadTail(rx))]

\* access_level: two prompts are requested; the highest level found wins
access_level(rx) ==
    LET resp == ReadHead(rx) \o ReadHead(ReadTail(rx))
        level == IF Contains(resp, LEVEL_C) THEN 3
                 ELSE IF Contains(resp, LEVEL_2) THEN 2
                 ELSE IF Contains(resp, LEVEL_1) THEN 1
                 ELSE 0
    IN [val |-> level, desc |-> LevelPair(level).desc,
        tx |-> <<CR, CR>>, rx |-> ReadTail(ReadTail(rx))]

\* the ACC login with the password written at every level
access_level_1_password_always(rx) ==
    LET At(lvl) ==
            [val |-> ~Contains(ReadHead(lvl.rx), Invalid),
             tx |-> lvl.tx \o <<GO_ACC>> \o <<PASS_ACC \o CR>>,
             rx |-> ReadTail(lvl.rx)]
    IN At(access_level(rx))

\* access_level_1: ACC, the password only from level 0, TRUE unless refused
access_level_1(rx) ==
    LET At(lvl) ==
            [val |-> ~Contains(ReadHead(lvl.rx), Invalid),
             tx |-> lvl.tx \o <<GO_ACC>>
                    \o (IF lvl.val = 0 THEN <<PASS_ACC \o CR>> ELSE <<>>),
             rx |-> ReadTail(lvl.rx)]
    IN At(access_level(rx))

\* the 2AC login that goes on after a refused ACC login
access_level_2_unchecked(rx) ==
    LET Through(lvl, one) ==
            [val |-> ~Contains(ReadHead(one.rx), Invalid),
             tx |-> lvl.tx \o one.tx \o <<GO_2AC>>
                    \o (IF lvl.val \in {0, 1} THEN <<PASS_2AC \o CR>> ELSE <<>>),
             rx |-> ReadTail(one.rx)]
        At(lvl) ==
            Through(lvl, IF lvl.val = 0 THEN access_level_1(lvl.rx)
                         ELSE [val |-> TRUE, tx |-> <<>>, rx |-> lvl.rx])
    IN At(access_level(rx))

\* access_level_2: through level 1 when at level 0, then 2AC
access_level_2(rx) ==
    LET Through(lvl, one) ==
            IF ~one.val THEN [val |-> FALSE, tx |-> lvl.tx \o one.tx, rx |-> one.rx]
            ELSE [val |-> ~Contains(ReadHead(one.rx), Invalid),
                  tx |-> lvl.tx \o one.tx \o <<GO_2AC>>
                         \o (IF lvl.val \in {0, 1} THEN <<PASS_2AC \o CR>> ELSE <<>>),
                  rx |-> ReadTail(one.rx)]
        At(lvl) ==
            Through(lvl, IF lvl.val = 0 THEN access_level_1(lvl.rx)
                         ELSE [val |-> TRUE, tx |-> <<>>, rx |-> lvl.rx])
    IN At(access_level(rx))

\* quit: QUI, one read whose content is ignored, then a clean prompt
quit(rx) ==
    LET AfterQuit(clean) == [clean EXCEPT !.tx = <<QUIT>> \o clean.tx]
    IN AfterQuit(_read_clean_prompt(ReadTail(rx)))

(***************************************************************************)
(* The ASCII parsers: relay_dna_block and relay_id_block.  Text is kept as *)
(* its bytes; the replies modelled are ASCII, where str and bytes agree.   *)
(***************************************************************************)
\* str.upper() on ASCII letters
Upper(s) == [k \in 1..Len(s) |-> IF s[k] >= 97 /\ s[k] <= 122 THEN s[k] - 32 ELSE s[k]]

\* str.split(sep) for a one-character separator
RECURSIVE SplitOn(_, _)
SplitOn(s, sep) ==
    LET k == Find(s, <<sep>>)
    IN IF k = -1 THEN <<s>>
       ELSE <<SubSeq(s, 1, k)>> \o SplitOn(SubSeq(s, k + 2, Len(s)), sep)

\* the 0-based offset at which the line holding offset k starts
LineStart(s, k) ==
    LET nl == {j \in 0..(k - 1) : s[j + 1] = 10}
    IN IF nl = {} THEN 0 ELSE (CHOOSE j \in nl : \A i \in nl : i <= j) + 1
\* the 0-based offset of the end of the line holding offset k (its "\n" or the end)
LineEnd(s, k) ==
    LET nl == {j \in k..(Len(s) - 1) : s[j + 1] = 10}
    IN IF nl = {} THEN Len(s) ELSE Min(nl)

\* RE_DNA_CONTROL = r'\>?.*DNA': the leftmost match starts at the line of the
\* first "DNA" and, being greedy, ends after the last "DNA" of that line;
\* split(...)[1] is the text from there to the next match or to the end
DnaWord == <<68, 78, 65>>
RE_DNA_CONTROL_split1(s) ==
    LET first == Find(s, DnaWord)
        eol == LineEnd(s, first)
        onLine == {k \in Occurs(s, DnaWord) : k + 3 <= eol}
        stop == (CHOOSE k \in onLine : \A j \in onLine : j <= k) + 3
        rest == SubSeq(s, stop + 1, Len(s))
        next == Find(rest, DnaWord)
    IN IF next = -1 THEN rest ELSE SubSeq(rest, 1, LineStart(rest, next))

\* RE_HEX_CHAR.sub('', target): characters outside \x20-\x7F are removed
RE_HEX_CHAR_sub(target) == SelectSeq(target, LAMBDA b : b >= 32 /\ b <= 127)

\* bytes.fromhex(text): pairs of hex digits, ASCII whitespace skipped between pairs
HexDigit(b) ==
    IF b >= 48 /\ b <= 57 THEN b - 48
    ELSE IF b >= 65 /\ b <= 70 THEN b - 55
    ELSE IF b >= 97 /\ b <= 102 THEN b - 87
    ELSE -1
IsSpace(b) == b \in {9, 10, 11, 12, 13, 32}
RECURSIVE FromHex(_)
FromHex(s) ==
    IF s = <<>> THEN Ok(<<>>)
    ELSE IF IsSpace(s[1]) THEN FromHex(Tail(s))
    ELSE IF Len(s) < 2 \/ HexDigit(s[1]) = -1 \/ HexDigit(s[2]) = -1 THEN Raise("ValueError")
    ELSE LET more == FromHex(SubSeq(s, 3, Len(s)))
         IN IF more.err # "none" THEN more
            ELSE Ok(<<16 * HexDigit(s[1]) + HexDigit(s[2])>> \o more.val)

\* '"{}",'.format('","'.join(row))
RECURSIVE JoinQuoted(_)
JoinQuoted(row) ==
    IF row = <<>> THEN <<>>
    ELSE IF Len(row) = 1 THEN row[1]
    ELSE row[1] \o <<34, 44, 34>> \o JoinQuoted(Tail(row))
QuotedRow(row) == <<34>> \o JoinQuoted(row) \o <<34, 44>>

\* the line's row whatever its checksum field holds
DnaLineUnchecked(line) ==
    IF ~Contains(line, <<44>>) THEN <<>>
    ELSE LET columns == SplitOn(line, 44)
         IN IF Len(columns) < 9 THEN <<>>
            ELSE <<[k \in 1..8 |-> RE_HEX_CHAR_sub(columns[k])]>>

\* one line of the DNA reply: the row of eight names, or nothing when the line
\* has no comma, too few columns, a bad hex field or a failing checksum
DnaLine(line) ==
    IF ~Contains(line, <<44>>) THEN <<>>
    ELSE LET columns == SplitOn(line, 44)
             row == [k \in 1..(IF Len(columns) < 8 THEN Len(columns) ELSE 8)
                        |-> RE_HEX_CHAR_sub(columns[k])]
             calc_checksum == eval_checksum(QuotedRow(row), FALSE)
             hex == IF Len(columns) < 9 THEN Raise("IndexError") ELSE FromHex(columns[9])
         IN IF hex.err # "none" THEN <<>>
            ELSE IF calc_checksum # SignedBE(hex.val) THEN <<>>
            ELSE <<row>>

RECURSIVE DnaLines(_)
DnaLines(lines) ==
    IF lines = <<>> THEN <<>> ELSE DnaLine(Head(lines)) \o DnaLines(Tail(lines))

relay_dna_block(bytes) ==
    IF ~Utf8Ok(bytes) THEN Raise("UnicodeDecodeError")
    ELSE LET upper == Upper(bytes)
             body == IF Contains(upper, DnaWord) THEN RE_DNA_CONTROL_split1(upper) ELSE upper
             dna_string == SelectSeq(body, LAMBDA b : b # 34)
         IN Ok(DnaLines(SplitOn(dna_string, 10)))

\* the RE_ID_BLOCKS patterns: "KEY=(group)","(\w*)" with the group's class
IsWord(b) == (b >= 48 /\ b <= 57) \/ (b >= 65 /\ b <= 90) \/ (b >= 97 /\ b <= 122) \/ b = 95
IsDigit(b) == b >= 48 /\ b <= 57
NoNewline(g) == \A k \in 1..Len(g) : g[k] # 10
GroupOk(class, g) ==
    CASE class = "sel" -> Len(g) >= 3 /\ SubSeq(g, 1, 3) = <<83, 69, 76>> /\ NoNewline(g)
      [] class = "word_any" -> Len(g) >= 1 /\ IsWord(g[1]) /\ NoNewline(g)
      [] class = "word" -> \A k \in 1..Len(g) : IsWord(g[k])
      [] class = "any" -> NoNewline(g)
      [] class = "digit" -> \A k \in 1..Len(g) : IsDigit(g[k])
RE_ID_BLOCKS ==
    <<[key |-> "FID", name |-> <<70, 73, 68>>, class |-> "sel"],
      [key |-> "BFID", name |-> <<66, 70, 73, 68>>, class |-> "word_any"],
      [key |-> "CID", name |-> <<67, 73, 68>>, class |-> "word"],
      [key |-> "DEVID", name |-> <<68, 69, 86, 73, 68>>, class |-> "any"],
      [key |-> "DEVCODE", name |-> <<68, 69, 86, 67, 79, 68, 69>>, class |-> "word"],
      [key |-> "PARTNO", name |-> <<80, 65, 82, 84, 78, 79>>, class |-> "word"],
      [key |-> "CONFIG", name |-> <<67, 79, 78, 70, 73, 71>>, class |-> "digit"],
      [key |-> "SPECIAL", name |-> <<83, 80, 69, 67, 73, 65, 76>>, class |-> "digit"]>>

\* the 0-based offset just after the longest run of word characters from k
RECURSIVE WordRunEnd(_, _)
WordRunEnd(s, k) == IF k < Len(s) /\ IsWord(s[k + 1]) THEN WordRunEnd(s, k + 1) ELSE k

\* the ends e of the group for a match that starts at offset p
GroupEnds(s, pat, p) ==
    LET gs == p + Len(pat.name) + 2
    IN {e \in gs..Len(s) :
          /\ GroupOk(pat.class, SubSeq(s, gs + 1, e))
          /\ IsAt(s, <<34, 44, 34>>, e)
          /\ LET w == WordRunEnd(s, e + 3) IN w < Len(s) /\ s[w + 1] = 34}
MatchStarts(s, pat) ==
    {p \in Occurs(s, <<34>> \o pat.name \o <<61>>) : GroupEnds(s, pat, p) # {}}

\* re_param.findall(id_string)[0]: the groups of the leftmost match, the
\* first group as long as the pattern allows
FindallFirst(s, pat) ==
    LET Groups(p, e) ==
            Ok([key_result |-> SubSeq(s, p + Len(pat.name) + 3, e),
                checksum_chars |-> SubSeq(s, e + 4, WordRunEnd(s, e + 3))])
        Longest(p, ends) == Groups(p, CHOOSE x \in ends : \A y \in ends : y <= x)
        From(p) == Longest(p, GroupEnds(s, pat, p))
        Leftmost(starts) ==
            IF starts = {} THEN Raise("IndexError") ELSE From(Min(starts))
    IN Leftmost(MatchStarts(s, pat))

\* one pattern of relay_id_block: the value, or the key left out of the
\* results when nothing matches, the hex field is bad or the checksum fails
\* (every exception raised in the try block is swallowed)
IdField(s, pat) ==
    LET Checked(key_result, hex) ==
            IF hex.err # "none" THEN Raise(hex.err)
            ELSE IF SignedBE(hex.val)
                    # eval_checksum(<<34>> \o pat.name \o <<61>> \o key_result \o <<34, 44>>,
                                    FALSE)
            THEN Raise("ChecksumFail")
            ELSE Ok(key_result)
        Found(found) ==
            IF found.err # "none" THEN Raise(found.err)
            ELSE Checked(found.val.key_result, FromHex(found.val.checksum_chars))
    IN Found(FindallFirst(s, pat))

relay_id_block(bytes) ==
    LET Results(fields) ==
            LET keys == {k \in 1..Len(RE_ID_BLOCKS) : fields[k].err = "none"}
            IN Ok([name \in {RE_ID_BLOCKS[k].key : k \in keys} |->
                     fields[CHOOSE j \in keys : RE_ID_BLOCKS[j].key = name].val])
    IN IF ~Utf8Ok(bytes) THEN Raise("UnicodeDecodeError")
       ELSE Results([k \in 1..Len(RE_ID_BLOCKS) |-> IdField(bytes, RE_ID_BLOCKS[k])])


(***************************************************************************)
(* fast_meter_block: one Fast Meter sample decoded with a configuration    *)
(* record and the digital names                                            *)
(***************************************************************************)
ANALOG_SIZE_LOOKUP == (0 :> 2) @@ (1 :> 4) @@ (2 :> 8) @@ (3 :> 8)

\* values of analog points: an integer, a rounded 4-byte float kept as its
\* four bytes, a complex number, or a list of samples
IntVal(n) == [kind |-> "int", v |-> n]
\* exponent and mantissa of a 4-byte float, the sign bit left out
FloatBits(value) == UnsignedBE(<<value[1] % 128, value[2], value[3], value[4]>>)
FloatInfinity == 2139095040     \* 0x7F800000; larger patterns are NaN
FloatGtThreshold == 841731197   \* 0x322BCC7D, the least float above 1e-8 after rounding

\* ANALOG_TYPE_FORMATTERS[type](value): int.from_bytes (big-endian, unsigned),
\* ieee_4_byte_fps, or None for the 8-byte types
FormatAnalog(type, value) ==
    CASE type = 0 -> Ok(IntVal(UnsignedBE(value)))
      [] type = 1 ->
            IF Len(value) # 4 THEN Raise("struct.error")
            ELSE IF FloatBits(value) = FloatInfinity THEN Raise("OverflowError")
            ELSE IF FloatBits(value) > FloatInfinity THEN Raise("ValueError")
            ELSE Ok([kind |-> "f32", v |-> value])
      [] OTHER -> Raise("TypeError")

\* analog_data > 1e-8
AboveZero(x) ==
    IF x.kind = "int" THEN x.v >= 1
    ELSE x.v[1] < 128 /\ FloatBits(x.v) >= FloatGtThreshold

Put(map, name, value) ==
    [n \in DOMAIN map \cup {name} |-> IF n = name THEN value ELSE map[n]]

\* the loop body for sample samp_n and one analog channel;
\* acc = [err, ind, scale, analogs], scale 0 while the name is unbound
AnalogPoint(b, samples, samp_n, analog_desc, acc) ==
    LET type == analog_desc.channeltype
        name == analog_desc.name
    IN IF type \notin DOMAIN ANALOG_SIZE_LOOKUP THEN [acc EXCEPT !.err = "KeyError"]
       ELSE LET size == ANALOG_SIZE_LOOKUP[type]
                scale == IF analog_desc.factortype = 255 THEN 1 ELSE acc.scale
                value == FormatAnalog(type, PySlice(b, acc.ind, acc.ind + size))
            IN IF value.err # "none" THEN [acc EXCEPT !.err = value.err, !.scale = scale]
               ELSE IF scale = 0 THEN [acc EXCEPT !.err = "UnboundLocalError"]
               ELSE LET analog_data == value.val
                        stored ==
                            IF samples = 1 THEN analog_data
                            ELSE IF samples = 2
                            THEN IF samp_n = 0
                                 THEN (IF AboveZero(analog_data)
                                       THEN [kind |-> "complex", re |-> IntVal(0), im |-> analog_data]
                                       ELSE IntVal(0))
                                 ELSE (IF acc.analogs[name].kind = "complex"
                                       THEN [acc.analogs[name] EXCEPT !.re = analog_data]
                                       ELSE analog_data)
                            ELSE IF samp_n = 0
                            THEN [kind |-> "list", items |-> <<analog_data>>]
                            ELSE [acc.analogs[name] EXCEPT !.items = Append(@, analog_data)]
                    IN [err |-> "none", ind |-> acc.ind + size, scale |-> scale,
                        analogs |-> Put(acc.analogs, name, stored)]

\* iteration t of the nested loops: sample t \div n, channel t % n
RECURSIVE AnalogLoop(_, _, _, _)
AnalogLoop(b, definition, t, acc) ==
    LET n == Len(definition.analogchannels)
        samples == definition.numsampperchan
    IN IF acc.err # "none" \/ t >= samples * n THEN acc
       ELSE AnalogLoop(b, definition, t + 1,
                AnalogPoint(b, samples, t \div n, definition.analogchannels[(t % n) + 1], acc))

\* dict(zip(point_names, target_data)) merged into the digitals
RECURSIVE ZipInto(_, _, _)
ZipInto(map, names, values) ==
    IF names = <<>> \/ values = <<>> THEN map
    ELSE ZipInto(Put(map, Head(names), Head(values)), Tail(names), Tail(values))

\* acc = [err, digitals]
RECURSIVE DigitalLoop(_, _, _, _, _)
DigitalLoop(b, definition, dna_def, target_row_index, acc) ==
    IF acc.err # "none" \/ target_row_index >= definition.numdigitalbank THEN acc
    ELSE IF definition.numdigitalbank # Len(dna_def)
    THEN [acc EXCEPT !.err = "DnaDigitalsMisMatch"]
    ELSE IF ~PyInRange(b, definition.digitaloffset + target_row_index)
    THEN [acc EXCEPT !.err = "ValueError"]
    ELSE LET point_names == PySlice(dna_def[target_row_index + 1], 0, 8)
             target_data == int_to_bool_list(
                 PyGet(b, definition.digitaloffset + target_row_index), TRUE, TRUE)
         IN DigitalLoop(b, definition, dna_def, target_row_index + 1,
                [acc EXCEPT !.digitals = ZipInto(@, point_names, target_data)])

Star == <<42>>   \* the name '*' of an unused digital point
NoPoints == [n \in {} |-> FALSE]

fast_meter_block(bytes, definition, dna_def) ==
    LET Struct(b, analogs, digitals) ==
            IF analogs.err # "none" THEN Raise(analogs.err)
            ELSE IF digitals.err # "none" THEN Raise(digitals.err)
            ELSE IF Star \notin DOMAIN digitals.digitals THEN Raise("KeyError")
            ELSE Ok([command |-> PySlice(b, 0, 2),
                     length |-> PyGet(b, 2),
                     statusflag |-> PySlice(b, 3, 3 + definition.numstatusflags),
                     analogs |-> analogs.analogs,
                     digitals |-> [n \in (DOMAIN digitals.digitals) \ {Star} |->
                                      digitals.digitals[n]]])
        Decoded(b) ==
            Struct(b,
                   AnalogLoop(b, definition, 0,
                       [err |-> "none", ind |-> definition.analogchanoff, scale |-> 0,
                        analogs |-> NoPoints]),
                   DigitalLoop(b, definition, dna_def, 0,
                       [err |-> "none", digitals |-> NoPoints]))
        Parsed(cast) == IF cast.err # "none" THEN cast ELSE Decoded(cast.val)
    IN Parsed(_cast_bytearray(bytes))


(***************************************************************************)
(* SelClient: the attributes and the methods of selprotopy/client/base.py. *)
(* A method takes the client record and the replies to come and returns    *)
(* the exception it raised (err), whether it never returns (hung), its     *)
(* writes (tx) and the client record it leaves (self).                     *)
(***************************************************************************)
None == [kind |-> "None"]
Absent == [kind |-> "absent"]       \* an attribute __init__ does not create
Value(v) == [kind |-> "value", val |-> v]

\* SelClient.__init__: the attributes before any configuration
NewClient ==
    [fid |-> <<>>, bfid |-> <<>>, cid |-> <<>>, devid |-> <<>>, partno |-> <<>>,
     config |-> <<>>,
     fast_meter_supported |-> FALSE,
     fast_meter_demand_supported |-> FALSE,
     fast_meter_peak_demand_supported |-> FALSE,
     fast_operate_supported |-> FALSE,
     fmconfigcommand1 |-> FM_CONFIG_BLOCK,
     fmcommand1 |-> FM_DEMAND_CONFIG_BLOCK,
     fmconfigcommand2 |-> FM_PEAK_CONFIG_BLOCK,
     fmcommand2 |-> FAST_METER_REGULAR,
     fmconfigcommand3 |-> FAST_METER_DEMAND,
     fmcommand3 |-> FAST_METER_PEAK_DEMAND,
     fopcommandinfo |-> FO_CONFIG_BLOCK,
     fmsgcommandinfo |-> FAST_MSG_CONFIG_BLOCK,
     fastMeterDef |-> None,
     fastDemandDef |-> None,
     fastPkDemandDef |-> None,
     fastOpDef |-> Absent,
     dnaDef |-> Absent]

Done(self, tx, rx) == [err |-> "none", hung |-> FALSE, tx |-> tx, rx |-> rx, self |-> self]
Fail(e, self, tx, rx) == [err |-> e, hung |-> FALSE, tx |-> tx, rx |-> rx, self |-> self]
Hang(self, tx) == [err |-> "none", hung |-> TRUE, tx |-> tx, rx |-> <<>>, self |-> self]

\* the assignments of autoconfig_relay_definition after a parsed definition
ApplyDefinition(self, definition) ==
    LET info == definition.fmcommandinfo
        s1 == IF definition.fmmessagesup >= 1
              THEN [self EXCEPT !.fmconfigcommand1 = info[1].configcommand,
                                !.fmcommand1 = info[1].command,
                                !.fast_meter_supported = TRUE]
              ELSE self
        s2 == IF definition.fmmessagesup >= 2
              THEN [s1 EXCEPT !.fmconfigcommand2 = info[2].configcommand,
                              !.fmcommand2 = info[2].command,
                              !.fast_meter_demand_supported = TRUE]
              ELSE s1
        s3 == IF definition.fmmessagesup >= 3
              THEN [s2 EXCEPT !.fmconfigcommand3 = info[3].configcommand,
                              !.fmcommand3 = info[3].command,
                              !.fast_meter_peak_demand_supported = TRUE]
              ELSE s2
        s4 == IF definition.fopcommandinfo # <<>>
              THEN [s3 EXCEPT !.fopcommandinfo = definition.fopcommandinfo,
                              !.fast_operate_supported = TRUE]
              ELSE s3
    IN IF definition.fmsgcommandinfo # <<>>
       THEN [s4 EXCEPT !.fmsgcommandinfo = definition.fmsgcommandinfo]
       ELSE s4

\* the body of autoconfig_relay_definition (one execution)
autoconfig_relay_definition(self, rx) ==
    LET tx == <<RELAY_DEFINITION \o CR>>
        Store(left, definition) ==
            IF definition.err # "none" THEN Fail(definition.err, self, tx, left)
            ELSE Done(ApplyDefinition(self, definition.val), tx, left)
        Read(response) ==
            IF response.err # "none" THEN Fail(response.err, self, tx, response.rx)
            ELSE Store(response.rx, relay_definition_block(response.val))
    IN Read(_read_command_response(RELAY_DEFINITION, rx))

\* the common body of autoconfig_fastmeter, autoconfig_fastmeter_demand,
\* autoconfig_fastmeter_peakdemand and autoconfig_fastoperate: a clean
\* prompt, the request, one read, the parser
ConfigRequest(self, command, attribute, clean, block) ==
    LET tx == clean.tx \o <<command \o CR>>
    IN IF clean.err # "none" THEN Fail(clean.err, self, clean.tx, clean.rx)
       ELSE IF clean.hung THEN Hang(self, clean.tx)
       ELSE IF block.err # "none" THEN Fail(block.err, self, tx, ReadTail(clean.rx))
       ELSE Done([self EXCEPT ![attribute] = Value(block.val)], tx, ReadTail(clean.rx))
\* the read after the request of a configuration step
ConfigReply(rx) == ReadHead(_read_clean_prompt(rx).rx)

autoconfig_fastmeter(self, rx) ==
    ConfigRequest(self, self.fmconfigcommand1, "fastMeterDef", _read_clean_prompt(rx),
                  fast_meter_configuration_block(ConfigReply(rx)))
autoconfig_fastmeter_demand(self, rx) ==
    ConfigRequest(self, self.fmconfigcommand2, "fastDemandDef", _read_clean_prompt(rx),
                  fast_meter_configuration_block(ConfigReply(rx)))
autoconfig_fastmeter_peakdemand(self, rx) ==
    ConfigRequest(self, self.fmconfigcommand3, "fastPkDemandDef", _read_clean_prompt(rx),
                  fast_meter_configuration_block(ConfigReply(rx)))
autoconfig_fastoperate(self, rx) ==
    ConfigRequest(self, self.fopcommandinfo, "fastOpDef", _read_clean_prompt(rx),
                  fast_op_configuration_block(ConfigReply(rx)))

\* the keys autoconfig reads from the ID block, in the order it reads them
IdAttributes == <<"FID", "BFID", "CID", "DEVID", "PARTNO", "CONFIG">>
StoreId(self, key, v) ==
    CASE key = "FID" -> [self EXCEPT !.fid = v]
      [] key = "BFID" -> [self EXCEPT !.bfid = v]
      [] key = "CID" -> [self EXCEPT !.cid = v]
      [] key = "DEVID" -> [self EXCEPT !.devid = v]
      [] key = "PARTNO" -> [self EXCEPT !.partno = v]
      [] key = "CONFIG" -> [self EXCEPT !.config = v]
\* self.fid = id_block['FID'] ...: a missing key raises KeyError after the
\* assignments before it
RECURSIVE StoreIds(_, _, _)
StoreIds(self, id_block, k) ==
    IF k > Len(IdAttributes) THEN [err |-> "none", self |-> self]
    ELSE IF IdAttributes[k] \notin DOMAIN id_block THEN [err |-> "KeyError", self |-> self]
    ELSE StoreIds(StoreId(self, IdAttributes[k], id_block[IdAttributes[k]]), id_block, k + 1)

\* autoconfig from the access-level check to its end: ACC only from level 0,
\* a clean prompt, DNA, ID
autoconfig_names(self, rx) ==
    LET Stored(tx, left, self2, stored) ==
            IF stored.err # "none" THEN Fail(stored.err, stored.self, tx, left)
            ELSE Done(stored.self, tx, left)
        IdParsed(tx, left, self2, id_block) ==
            IF id_block.err # "none" THEN Fail(id_block.err, self2, tx, left)
            ELSE Stored(tx, left, self2, StoreIds(self2, id_block.val, 1))
        IdRead(tx, self2, idRead) ==
            IF idRead.err # "none" THEN Fail(idRead.err, self2, tx, idRead.rx)
            ELSE IdParsed(tx, idRead.rx, self2, relay_id_block(idRead.val))
        DnaParsed(tx, left, dna) ==
            IF dna.err # "none" THEN Fail(dna.err, self, tx, left)
            ELSE IdRead(tx \o <<ID>>, [self EXCEPT !.dnaDef = Value(dna.val)],
                        _read_command_response(ID, left))
        DnaRead(tx, dnaRead) ==
            IF dnaRead.err # "none" THEN Fail(dnaRead.err, self, tx, dnaRead.rx)
            ELSE DnaParsed(tx, dnaRead.rx, relay_dna_block(dnaRead.val))
        Prompted(tx, clean) ==
            IF clean.err # "none" THEN Fail(clean.err, self, tx \o clean.tx, clean.rx)
            ELSE IF clean.hung THEN Hang(self, tx \o clean.tx)
            ELSE DnaRead(tx \o clean.tx \o <<DNA>>, _read_command_response(DNA, clean.rx))
        Escalated(tx, acc) == Prompted(tx \o acc.tx, _read_clean_prompt(acc.rx))
        At(lvl) ==
            Escalated(lvl.tx, IF lvl.val = 0 THEN access_level_1(lvl.rx)
                              ELSE [val |-> TRUE, tx |-> <<>>, rx |-> lvl.rx])
    IN At(access_level(rx))

\* poll_fast_meter(minAccLevel)
PollAfterCheck(self, minAccLevel, rx) ==
    LET Parsed(tx, left, response) ==
            IF response.err # "none" THEN Fail(response.err, self, tx, left) @@ [val |-> None]
            ELSE Done(self, tx, left) @@ [val |-> Value(response.val)]
        Read(tx, read) ==
            IF read.err # "none" THEN Fail(read.err, self, tx, read.rx) @@ [val |-> None]
            ELSE IF self.dnaDef = Absent
            THEN Fail("AttributeError", self, tx, read.rx) @@ [val |-> None]
            ELSE Parsed(tx, read.rx,
                        fast_meter_block(read.val, self.fastMeterDef.val, self.dnaDef.val))
        Prompted(tx, clean) ==
            IF clean.err # "none"
            THEN Fail(clean.err, self, tx \o clean.tx, clean.rx) @@ [val |-> None]
            ELSE IF clean.hung THEN Hang(self, tx \o clean.tx) @@ [val |-> None]
            ELSE Read(tx \o clean.tx \o <<self.fmcommand1 \o CR>>,
                      _read_command_response(self.fmcommand1, clean.rx))
        Escalated(acc) == Prompted(acc.tx, _read_clean_prompt(acc.rx))
    IN Escalated(IF minAccLevel = 1 THEN access_level_1(rx)
                 ELSE IF minAccLevel = 2 THEN access_level_2(rx)
                 ELSE [val |-> TRUE, tx |-> <<>>, rx |-> rx])

\* a poll that reaches the relay before it looks at fastMeterDef
poll_fast_meter_late_check(self, minAccLevel, rx) ==
    LET Prompted(tx, clean) ==
            IF clean.err # "none"
            THEN Fail(clean.err, self, tx \o clean.tx, clean.rx) @@ [val |-> None]
            ELSE IF clean.hung THEN Hang(self, tx \o clean.tx) @@ [val |-> None]
            ELSE Fail("ValueError", self, tx \o clean.tx, clean.rx) @@ [val |-> None]
        Escalated(acc) == Prompted(acc.tx, _read_clean_prompt(acc.rx))
    IN IF self.fastMeterDef # None THEN PollAfterCheck(self, minAccLevel, rx)
       ELSE Escalated(IF minAccLevel = 1 THEN access_level_1(rx)
                      ELSE IF minAccLevel = 2 THEN access_level_2(rx)
                      ELSE [val |-> TRUE, tx |-> <<>>, rx |-> rx])

\* poll_fast_meter, lines 788-809
poll_fast_meter(self, minAccLevel, rx) ==
    IF self.fastMeterDef = None
    THEN Fail("ValueError", self, <<>>, rx) @@ [val |-> None]
    ELSE PollAfterCheck(self, minAccLevel, rx)


(***************************************************************************)
(* Frames fed to the preamble and the parsers                              *)
(***************************************************************************)
Byte == 0..255
MaxLen == 4

\* a frame as a relay builds it: header, command, total length, payload, checksum
MkFrame(cmd, payload) ==
    LET body == <<165, cmd, Len(payload) + 4>> \o payload
    IN body \o <<SumSeq(body) % 256>>

RECURSIVE SeqsUpTo(_, _)
SeqsUpTo(S, n) ==
    IF n = 0 THEN {<<>>}
    ELSE LET shorter == SeqsUpTo(S, n - 1)
         IN shorter \cup {Append(q, x) : q \in {r \in shorter : Len(r) = n - 1}, x \in S}

\* bytes that matter to the preamble: NUL, a small length, '=', CR, LF, the
\* header byte and the bytes that complete a checksum to 0 and to 3
SampleBytes == {0, 3, 10, 13, 61, 91, 94, 165}
SmallBuffers == SeqsUpTo(SampleBytes, MaxLen) \ {<<>>}

\* scenario S1 of the specification and its single-byte replacements
S1Frame == MkFrame(192, <<1, 2>>)
Replace(f, i, v) == [f EXCEPT ![i + 1] = v]
S1Mutations == {Replace(S1Frame, i, v) : i \in 0..4, v \in Byte}

\* payloads of relay definition, Fast Meter configuration and Fast Operate
\* configuration replies
RdPayloads ==
    { <<0, 0, 0, 0>>,
      <<1, 1, 0, 165, 193, 165, 209, 0, 1, 0>>,
      <<1, 0, 0, 0, 2, 1>>,
      <<2, 3, 0, 165, 193, 165, 209, 165, 194, 165, 210, 165, 195, 165, 211, 0, 0, 2, 3, 0>>,
      <<1, 0, 0, 0, 1, 9>>,
      <<1, 1, 0, 165, 193>> }
FmPayloads ==
    { <<1, 0, 0, 0, 1, 0, 0, 0, 4, 0, 0, 0, 5>>,
      <<1, 0, 0, 0, 1, 1, 0, 0, 4, 0, 0, 0, 5>>,
      <<1, 0, 0, 1, 1, 2, 0, 0, 4, 0, 0, 0, 6, 73, 65, 0, 0, 0, 0, 0, 255, 0, 0>>,
      <<1, 0, 0, 2, 1, 0, 0>> }
FoPayloads ==
    { <<0, 0, 0, 0, 0>>,
      <<1, 0, 1, 1, 0, 49, 50, 0, 1, 7>>,
      <<1, 0, 2, 0, 0, 49, 50, 0, 1, 2, 3>>,
      <<2, 0, 0, 0, 0, 49>> }
Commands == {192, 193, 194, 195, 206, 209}
SampleFrames == {MkFrame(c, p) : c \in Commands, p \in RdPayloads \cup FmPayloads \cup FoPayloads}
              \cup {MkFrame(c, p) : c \in {192}, p \in SeqsUpTo({0, 1, 13, 61}, MaxLen - 1)}

ProperPrefixes(f) == {SubSeq(f, 1, k) : k \in 1..(Len(f) - 1)}
TruncatedFrames == UNION {ProperPrefixes(f) : f \in SampleFrames}
\* a reply as read from the transport: the frame, then nothing, CRLF, or CRLF and prompt
Trailers == {<<>>, CR, PROMPT}
FramedReplies == {f \o t : f \in SampleFrames, t \in Trailers}

FrameInputs == SmallBuffers \cup S1Mutations \cup TruncatedFrames \cup FramedReplies

(***************************************************************************)
(* The relay's side of a session: the replies a transport hands to the     *)
(* client.  A piece is the replies to one stretch of reads: the reply of   *)
(* a relay that behaves (nominal) and the other replies modelled for it    *)
(* (deviations).  MaxFaults bounds how many pieces of a behaviour deviate. *)
(***************************************************************************)
MaxFaults == 1
MaxAttempts == 1

HexChar(d) == IF d < 10 THEN 48 + d ELSE 55 + d
Hex4(n) == <<HexChar((n \div 4096) % 16), HexChar((n \div 256) % 16),
             HexChar((n \div 16) % 16), HexChar(n % 16)>>

P0 == PROMPT                      \* "\r\n="  the level-0 prompt
P1 == CR \o LEVEL_1               \* "\r\n=>" the level-1 prompt
P2 == CR \o LEVEL_2               \* "\r\n=>>" the level-2 prompt
PE == LEVEL_0 \o CR               \* "=\r\n"  a prompt followed by a new line
Silence == <<>>                   \* a read that times out
Refusal == INVALID_COMMAND_STR \o P0

\* a binary reply: the frame, then the prompt
Reply(frame) == frame \o P0
WithSum(body, delta) == body \o <<(SumSeq(body) + delta) % 256>>
BadSum(frame) == WithSum(SubSeq(frame, 1, Len(frame) - 1), 1)

\* relay definitions: one Fast Meter message and Fast Operate (the nominal
\* relay), no Fast Meter and no Fast Operate, three Fast Meter messages
RdOne == MkFrame(192, <<1, 1, 0, 165, 193, 165, 209, 0, 1, 0>>)
RdNone == MkFrame(192, <<0, 0, 0, 0>>)
RdThree == MkFrame(192, <<1, 3, 0, 165, 193, 165, 209, 165, 194, 165, 210,
                          165, 195, 165, 211, 0, 1, 0>>)
RdShortTable == MkFrame(192, <<1, 1, 0, 165, 193>>)     \* the table runs past the end
RdWellFormed == {RdOne, RdNone, RdThree}

\* Fast Meter configurations: one status byte, no analog channel, digital
\* banks at offset 4
FmConfig(cmd, banks) == MkFrame(cmd, <<1, 0, 0, 0, 1, banks, 0, 0, 4, 0, 0, 0, 4>>)
FoConfig == MkFrame(206, <<1, 0, 1, 1, 0, 49, 50, 0, 1, 7>>)

\* Fast Meter data for FmConfig: the status byte and the digital banks
FmData(cmd, banks) == MkFrame(cmd, <<0>> \o banks)

\* the DNA reply: the echoed command, STX, the rows, ETX and the prompt
NameA == <<65>>
NameB == <<66>>
NameT == <<84>>
Row1 == <<NameA, NameB, Star, Star, Star, Star, Star, Star>>
Row2 == <<Star, Star, Star, Star, Star, Star, Star, NameT>>
DnaRowLine(row, delta) ==
    QuotedRow(row) \o <<34>> \o Hex4(eval_checksum(QuotedRow(row), FALSE) + delta)
    \o <<34>> \o CR
DnaReply(lines) == DNA \o <<2>> \o lines \o <<3>> \o CR \o LEVEL_1

\* the ID reply: one line per key
IdLine(k, value, delta) ==
    LET text == <<34>> \o RE_ID_BLOCKS[k].name \o <<61>> \o value \o <<34, 44>>
    IN text \o <<34>> \o Hex4(eval_checksum(text, FALSE) + delta) \o <<34>> \o CR
IdValues == << <<83, 69, 76, 45, 49>>, <<66, 49>>, <<67, 49>>, <<68, 49>>,
               <<51, 48>>, <<80, 49>>, <<49, 49>>, <<48>> >>
RECURSIVE IdLines(_, _, _)
IdLines(k, skip, bad) ==
    IF k > Len(RE_ID_BLOCKS) THEN <<>>
    ELSE (IF k = skip THEN <<>> ELSE IdLine(k, IdValues[k], IF k = bad THEN 1 ELSE 0))
         \o IdLines(k + 1, skip, bad)
IdReply(skip, bad) == ID \o <<2>> \o IdLines(1, skip, bad) \o <<3>> \o CR \o LEVEL_1

Piece(nominal, deviations) == [nominal |-> nominal, deviations |-> deviations]

\* the reads of _read_clean_prompt and its final eager read
CleanPiece ==
    Piece(<<PE, Silence, Silence, Silence>>,
          { <<P0, P0, Silence, Silence, Silence>>,
            <<A5>> })
\* the read after QUI
QuitPiece == Piece(<<P0>>, {})
\* the two prompts of access_level at level 0, and at level 1
Level0Piece == Piece(<<P0, P0>>, {<<P1, P1>>})
\* the read after ACC (and the password)
AccPiece == Piece(<<P1>>, {<<Invalid \o P0>>})
\* the read after 2AC (and the password)
TwoAcPiece == Piece(<<P2>>, {<<Invalid \o P1>>})

\* a reply cut after its first byte, after the command, and after the
\* length byte and two more
Cuts(frame) == {SubSeq(frame, 1, 1), SubSeq(frame, 1, 2), SubSeq(frame, 1, 5)}

\* the replies to a binary request for the frame a behaving relay sends:
\* other frames, a cut reply with nothing after it, a cut reply with the
\* whole reply in the next read, a failing checksum, a refusal
BinaryPiece(frame, others) ==
    Piece(<<Reply(frame)>>,
          {<<Reply(f)>> : f \in others}
          \cup {<<p>> : p \in Cuts(frame) \ {SubSeq(frame, 1, 1)}}
          \cup {<<p, Reply(frame)>> : p \in Cuts(frame)}
          \cup { <<Reply(BadSum(frame))>>, <<Refusal>> })

RdPiece == BinaryPiece(RdOne, {RdNone, RdThree, RdShortTable})
FmPiece(cmd) == BinaryPiece(FmConfig(cmd, 2), {FmConfig(cmd, 1), FmConfig(cmd, 0)})
FoPiece == BinaryPiece(FoConfig, {})
DataPiece(cmd) ==
    BinaryPiece(FmData(cmd, <<129, 1>>), {FmData(cmd, <<129>>), FmData(cmd, <<>>)})
DnaPiece ==
    Piece(<<DnaReply(DnaRowLine(Row1, 0) \o DnaRowLine(Row2, 0))>>,
          { <<DnaReply(DnaRowLine(Row1, 0) \o DnaRowLine(Row2, 1))>>,
            <<DnaReply(DnaRowLine(Row1, 0))>>,
            <<DnaReply(DnaRowLine(Row2, 0) \o DnaRowLine(Row2, 0))>>,
            <<Refusal>> })
IdPiece ==
    Piece(<<IdReply(0, 0)>>,
          { <<IdReply(1, 0)>>, <<IdReply(0, 3)>>, <<Refusal>> })

RECURSIVE Combos(_, _)
Combos(pieces, budget) ==
    IF pieces = <<>> THEN {[rx |-> <<>>, cost |-> 0]}
    ELSE LET rest == Combos(Tail(pieces), budget)
         IN {[rx |-> Head(pieces).nominal \o r.rx, cost |-> r.cost] : r \in rest}
            \cup {[rx |-> d \o r.rx, cost |-> r.cost + 1] :
                    d \in Head(pieces).deviations, r \in {x \in rest : x.cost < budget}}

RECURSIVE NominalUpTo(_, _)
NominalUpTo(pieces, k) ==
    IF k = 0 THEN <<>> ELSE pieces[1].nominal \o NominalUpTo(Tail(pieces), k - 1)

\* the behaviours of the transport over the pieces: the combinations with at
\* most budget deviating pieces, and the relay falling silent from the start
\* or before the last piece
Scripts(pieces, budget) ==
    Combos(pieces, budget)
    \cup (IF budget >= 1
          THEN {[rx |-> NominalUpTo(pieces, k), cost |-> 1] : k \in {0, Len(pieces) - 1}}
          ELSE {})

(***************************************************************************)
(* The session specification: the public calls of one SelClient on one     *)
(* transport.  A call runs from "idle" to "idle"; a call that never        *)
(* returns ends in "hung".                                                 *)
(***************************************************************************)
RetriedSteps ==
    <<"autoconfig_relay_definition", "autoconfig_fastmeter", "autoconfig_fastmeter_demand",
      "autoconfig_fastmeter_peakdemand", "autoconfig_fastoperate">>
IsStep(label) == \E k \in 1..Len(RetriedSteps) : RetriedSteps[k] = label

\* autoconfig, lines 500-507: a step runs when its flag is set
Supported(self, label) ==
    CASE label = "autoconfig_fastmeter" -> self.fast_meter_supported
      [] label = "autoconfig_fastmeter_demand" -> self.fast_meter_demand_supported
      [] label = "autoconfig_fastmeter_peakdemand" -> self.fast_meter_peak_demand_supported
      [] label = "autoconfig_fastoperate" -> self.fast_operate_supported
      [] OTHER -> TRUE

\* where a call goes after the step label returned
AfterStep(name, label, self) ==
    IF name # "autoconfig" THEN "idle"
    ELSE LET k == CHOOSE j \in 1..Len(RetriedSteps) : RetriedSteps[j] = label
             later == {j \in (k + 1)..Len(RetriedSteps) : Supported(self, RetriedSteps[j])}
         IN IF later = {} THEN "names" ELSE RetriedSteps[Min(later)]

\* the replies an operation reads: what the transport still holds, or else
\* a new behaviour of the relay within the fault bound
Feed(pieces) ==
    IF pending # <<>> THEN {[rx |-> pending, cost |-> 0]}
    ELSE Scripts(pieces, MaxFaults - faults)

\* the public call under way: its name, its argument, and what the relay
\* definition parsed during it reported (fm = -1 while none was parsed)
Call(name, arg) == [name |-> name, arg |-> arg, fm |-> -1, fo |-> FALSE]
NoCall == Call("none", 0)
\* the definition an execution of autoconfig_relay_definition parsed
Reported(replies) ==
    relay_definition_block(_read_command_response(RELAY_DEFINITION, replies).val).val
Reporting(c, definition) ==
    [c EXCEPT !.fm = definition.fmmessagesup, !.fo = definition.fopcommandinfo # <<>>]

NoStep == [label |-> "none", attempts |-> 0, execs |-> 0, err |-> "none", fed |-> <<>>]

SessionInit ==
    /\ client = NewClient
    /\ pending = <<>>
    /\ wire = <<>>
    /\ pc = "idle"
    /\ call = NoCall
    /\ attempts = 0
    /\ cnt = 0
    /\ execs = 0
    /\ fed = <<>>
    /\ lastErr = "none"
    /\ done = NoStep
    /\ raised = "none"
    /\ ret = None
    /\ faults = 0

(***************************************************************************)
(* The frame specification: one parser function applied to one input       *)
(***************************************************************************)
FrameInit ==
    /\ data \in FrameInputs
    /\ op = "none"
    /\ result = Ok(<<>>)
    /\ SessionInit

Apply(name, outcome) ==
    /\ op = "none"
    /\ op' = name
    /\ result' = outcome
    /\ UNCHANGED <<data, sessionVars>>

ValidateChecksum == Apply("_validate_checksum", Raise(_validate_checksum(data)))
CastBytearray == Apply("_cast_bytearray", _cast_bytearray(data))
RelayDefinitionBlock == Apply("relay_definition_block", relay_definition_block(data))
FastMeterConfigurationBlock ==
    Apply("fast_meter_configuration_block", fast_meter_configuration_block(data))
FastOpConfigurationBlock ==
    Apply("fast_op_configuration_block", fast_op_configuration_block(data))

FrameNext ==
    \/ ValidateChecksum
    \/ CastBytearray
    \/ RelayDefinitionBlock
    \/ FastMeterConfigurationBlock
    \/ FastOpConfigurationBlock

FrameSpec == FrameInit /\ [][FrameNext]_vars

(***************************************************************************)
(* The session specification                                               *)
(***************************************************************************)
Init ==
    /\ SessionInit
    /\ data = <<>>
    /\ op = "session"
    /\ result = Ok(<<>>)

\* the call returns or raises
Return(e) ==
    /\ pc' = "idle"
    /\ raised' = e

\* no retry wrapper is running
NoWrapper ==
    /\ attempts' = 0
    /\ cnt' = 0
    /\ execs' = 0
    /\ fed' = <<>>
    /\ lastErr' = "none"

\* the wrapper of a retried step is entered: retry's wrapper, lines 134-137
EnterStep(label, n) ==
    /\ pc' = label
    /\ attempts' = n
    /\ cnt' = 0
    /\ execs' = 0
    /\ fed' = <<>>
    /\ lastErr' = "none"

\* autoconfig(attempts=n) up to its first step: quit()
Autoconfig(n) ==
    /\ pc = "idle"
    /\ \E s \in Feed(<<QuitPiece, CleanPiece>>) :
          \E r \in {quit(s.rx)} :
             /\ faults' = faults + s.cost
             /\ pending' = r.rx
             /\ wire' = r.tx
             /\ IF r.hung THEN pc' = "hung" /\ raised' = "running" /\ NoWrapper
                ELSE IF r.err # "none" THEN Return(r.err) /\ NoWrapper
                ELSE EnterStep("autoconfig_relay_definition", n) /\ raised' = "running"
    /\ call' = Call("autoconfig", n)
    /\ ret' = None
    /\ done' = NoStep
    /\ UNCHANGED <<client, data, op, result>>

\* a retried step called on its own: autoconfig_relay_definition(attempts=n), ...
CallStep(label, n) ==
    /\ pc = "idle"
    /\ EnterStep(label, n)
    /\ call' = Call(label, n)
    /\ wire' = <<>>
    /\ raised' = "running"
    /\ ret' = None
    /\ done' = NoStep
    /\ UNCHANGED <<client, pending, faults, data, op, result>>

\* a wrapper that also catches ChecksumFail
RetriedWithChecksumFail(e) == e \in {"MalformedByteArray", "ChecksumFail"}
\* retry, line 146: what the wrapper does with the exception of an execution
Retried(e) == e = "MalformedByteArray"
\* retry, lines 137-147: cnt after an execution that is retried
CountRetry(c) == c

\* one pass of the wrapper's loop for the step the call is at: the loop test,
\* then one execution of the step (s the replies it was given, r what it did)
\* and what the wrapper does with its outcome
Attempt(label, s, r) ==
    /\ IF ~((cnt < attempts) \/ (attempts = 0))
       THEN /\ Return("AutoConfigurationFailure")
            /\ done' = [label |-> label, attempts |-> attempts, execs |-> execs,
                        err |-> "AutoConfigurationFailure", fed |-> fed]
            /\ NoWrapper
            /\ UNCHANGED <<client, pending, wire, faults, call>>
       ELSE LET log == IF pending # <<>> THEN fed ELSE fed \o s.rx
                finished == [label |-> label, attempts |-> attempts, execs |-> execs + 1,
                             err |-> r.err, fed |-> log]
                next == AfterStep(call.name, label, r.self)
            IN /\ faults' = faults + s.cost
               /\ pending' = r.rx
               /\ wire' = wire \o r.tx
               /\ client' = r.self
               /\ call' = IF label = "autoconfig_relay_definition" /\ r.err = "none"
                          THEN Reporting(call, Reported(s.rx))
                          ELSE call
               /\ IF r.hung
                  THEN /\ pc' = "hung"
                       /\ execs' = execs + 1
                       /\ fed' = log
                       /\ UNCHANGED <<attempts, cnt, lastErr, done, raised>>
                  ELSE IF r.err = "none"
                  THEN /\ done' = finished
                       /\ raised' = IF next = "idle" THEN "none" ELSE raised
                       /\ IF IsStep(next) THEN EnterStep(next, 0)
                          ELSE pc' = next /\ NoWrapper
                  ELSE IF Retried(r.err)
                  THEN /\ cnt' = CountRetry(cnt)
                       /\ execs' = execs + 1
                       /\ fed' = log
                       /\ lastErr' = r.err
                       /\ done' = NoStep
                       /\ UNCHANGED <<pc, attempts, raised>>
                  ELSE /\ Return(r.err)
                       /\ done' = finished
                       /\ NoWrapper
    /\ UNCHANGED <<ret, data, op, result>>

RelayDefinitionAttempt ==
    /\ pc = "autoconfig_relay_definition"
    /\ \E s \in Feed(<<RdPiece>>) :
          Attempt("autoconfig_relay_definition", s, autoconfig_relay_definition(client, s.rx))
FastMeterAttempt ==
    /\ pc = "autoconfig_fastmeter"
    /\ \E s \in Feed(<<CleanPiece, FmPiece(193)>>) :
          Attempt("autoconfig_fastmeter", s, autoconfig_fastmeter(client, s.rx))
FastMeterDemandAttempt ==
    /\ pc = "autoconfig_fastmeter_demand"
    /\ \E s \in Feed(<<CleanPiece, FmPiece(194)>>) :
          Attempt("autoconfig_fastmeter_demand", s, autoconfig_fastmeter_demand(client, s.rx))
FastMeterPeakDemandAttempt ==
    /\ pc = "autoconfig_fastmeter_peakdemand"
    /\ \E s \in Feed(<<CleanPiece, FmPiece(195)>>) :
          Attempt("autoconfig_fastmeter_peakdemand", s,
                  autoconfig_fastmeter_peakdemand(client, s.rx))
FastOperateAttempt ==
    /\ pc = "autoconfig_fastoperate"
    /\ \E s \in Feed(<<CleanPiece, FoPiece>>) :
          Attempt("autoconfig_fastoperate", s, autoconfig_fastoperate(client, s.rx))

\* autoconfig from line 509 to its end
AutoconfigNames ==
    /\ pc = "names"
    /\ \E s \in Feed(<<Level0Piece, Level0Piece, AccPiece, CleanPiece, DnaPiece, IdPiece>>) :
          \E r \in {autoconfig_names(client, s.rx)} :
             /\ faults' = faults + s.cost
             /\ pending' = r.rx
             /\ wire' = wire \o r.tx
             /\ client' = r.self
             /\ IF r.hung THEN pc' = "hung" /\ UNCHANGED raised
                ELSE Return(r.err)
    /\ done' = NoStep
    /\ UNCHANGED <<call, attempts, cnt, execs, fed, lastErr, ret, data, op, result>>

PollPieces(minAccLevel) ==
    CASE minAccLevel = 0 -> <<CleanPiece, DataPiece(209)>>
      [] minAccLevel = 1 -> <<Level0Piece, AccPiece, CleanPiece, DataPiece(209)>>
      [] minAccLevel = 2 ->
            <<Level0Piece, Level0Piece, AccPiece, TwoAcPiece, CleanPiece, DataPiece(209)>>

\* poll_fast_meter(minAccLevel); a poll that reads nothing takes no reply
PollFastMeter(minAccLevel) ==
    /\ pc = "idle"
    /\ \E s \in Feed(PollPieces(minAccLevel)) :
          \E r \in {poll_fast_meter(client, minAccLevel, s.rx)} :
             /\ (r.rx = s.rx /\ pending = <<>>) => s.rx = NominalUpTo(PollPieces(minAccLevel),
                                                  Len(PollPieces(minAccLevel)))
             /\ faults' = IF r.rx = s.rx THEN faults ELSE faults + s.cost
             /\ pending' = IF r.rx = s.rx THEN pending ELSE r.rx
             /\ wire' = r.tx
             /\ client' = r.self
             /\ ret' = r.val
             /\ IF r.hung THEN pc' = "hung" /\ raised' = "running"
                ELSE Return(r.err)
    /\ call' = Call("poll_fast_meter", minAccLevel)
    /\ done' = NoStep
    /\ UNCHANGED <<attempts, cnt, execs, fed, lastErr, data, op, result>>

Next ==
    \/ \E n \in 0..MaxAttempts : Autoconfig(n)
    \/ \E n \in 0..MaxAttempts, k \in 1..Len(RetriedSteps) : CallStep(RetriedSteps[k], n)
    \/ RelayDefinitionAttempt
    \/ FastMeterAttempt
    \/ FastMeterDemandAttempt
    \/ FastMeterPeakDemandAttempt
    \/ FastOperateAttempt
    \/ AutoconfigNames
    \/ \E m \in 0..2 : PollFastMeter(m)

Spec == Init /\ [][Next]_vars

(***************************************************************************)
(* Claims about the frame preamble and the binary parsers (FrameSpec)      *)
(***************************************************************************)
BinaryParsers ==
    {"relay_definition_block", "fast_meter_configuration_block",
     "fast_op_configuration_block"}

\* C1: a buffer that starts with 0xA5 and holds at least length = buf[2] bytes is
\* accepted by _validate_checksum exactly when buf[length-1] is the sum of
\* buf[0 .. length-2] modulo 256, and fails with ChecksumFail otherwise; the
\* outcome is a function of the first length bytes only.
C1_ChecksumOverDeclaredLength ==
    (op = "_validate_checksum" /\ Len(data) >= 3 /\ data[1] = 165 /\ Len(data) >= data[3])
    => LET length == data[3]
       IN result.err =
            IF length >= 1 /\ data[length] = SumSeq(SubSeq(data, 1, length - 1)) % 256
            THEN "none" ELSE "ChecksumFail"

\* C2: a proper non-empty prefix of a valid frame makes _cast_bytearray fail with
\* MalformedByteArray and with no other exception.
C2_TruncatedIsMalformed ==
    (op = "_cast_bytearray" /\ data \in TruncatedFrames)
    => result.err = "MalformedByteArray"

S1Outcome(f) ==
    IF f = S1Frame THEN "none"
    ELSE LET i == CHOOSE k \in 0..4 : f[k + 1] # S1Frame[k + 1]
             v == f[i + 1]
         IN IF i = 0 THEN "MissingA5Head"
            ELSE IF v = 61 THEN (IF i \in {1, 2} THEN "IndexError" ELSE "MalformedByteArray")
            ELSE IF i = 2 /\ v > Len(S1Frame) THEN "MalformedByteArray"
            ELSE "ChecksumFail"

C4_HeaderInvariant ==
    (op \in BinaryParsers /\ result.err = "none")
    => /\ Len(result.val.command) = 2
       /\ result.val.command[1] = 165
       /\ result.val.command[2] \in
            (CASE op = "relay_definition_block" -> {192}
               [] op = "fast_meter_configuration_block" -> {193, 194, 195}
               [] op = "fast_op_configuration_block" -> {206})

(***************************************************************************)
(* Claims about the session: the retry wrapper, autoconfig and             *)
(* poll_fast_meter (Spec)                                                  *)
(***************************************************************************)
Count(seq, x) == Cardinality({i \in 1..Len(seq) : seq[i] = x})
InAutoconfig == call.name = "autoconfig"

RdRequest == RELAY_DEFINITION \o CR
HoldsRdOne(self) ==
    /\ self.fmconfigcommand1 = <<165, 193>>
    /\ self.fmcommand1 = <<165, 209>>
    /\ self.fast_meter_supported
    /\ self.fast_operate_supported

Propagated ==
    {"ChecksumFail", "MissingA5Head", "DnaDigitalsMisMatch", "InvalidCommand", "ValueError"}

\* C7: the wrapper goes round again only after MalformedByteArray; a step that
\* raised ChecksumFail, MissingA5Head, DnaDigitalsMisMatch, InvalidCommand or
\* ValueError has ended the call with that exception, whatever the budget,
\* and each execution of the relay-definition step wrote one request.
C7_OnlyMalformedRetried ==
    /\ IsStep(pc) => lastErr \in {"none", "MalformedByteArray"}
    /\ (done.label # "none" /\ done.err \in Propagated) =>
          (pc = "idle" /\ raised = done.err /\ execs = 0)
    /\ (done.label = "autoconfig_relay_definition"
        /\ call.name = "autoconfig_relay_definition") =>
          Count(wire, RdRequest) = done.execs
C7_Witness ==
    /\ done.label = "autoconfig_relay_definition"
    /\ done.attempts = 0
    /\ done.execs = 1
    /\ done.err = "ChecksumFail"
    /\ raised = "ChecksumFail"
    /\ pc = "idle"

\* the requests of autoconfig in the order the claim gives them, and the
\* place of a written message in that order (0 for passwords and new lines)
Rank(msg) ==
    CASE msg = QUIT -> 1
      [] msg = RdRequest -> 2
      [] msg = client.fmconfigcommand1 \o CR -> 3
      [] msg = client.fmconfigcommand2 \o CR -> 4
      [] msg = client.fmconfigcommand3 \o CR -> 5
      [] msg = client.fopcommandinfo \o CR -> 6
      [] msg = GO_ACC -> 7
      [] msg = DNA -> 8
      [] msg = ID -> 9
      [] OTHER -> 0
Written(rank) == \E i \in 1..Len(wire) : Rank(wire[i]) = rank

C9_PollBeforeConfig ==
    [][(pc = "idle" /\ call'.name = "poll_fast_meter" /\ client.fastMeterDef = None)
          => ( /\ pc' = "idle"
               /\ raised' = "ValueError"
               /\ ret' = None
               /\ wire' = <<>>
               /\ pending' = pending
               /\ faults' = faults
               /\ client' = client )]_vars
C9_Witness ==
    /\ call.name = "poll_fast_meter"
    /\ pc = "idle"
    /\ raised = "ValueError"
    /\ client.fastMeterDef = None
    /\ wire = <<>>
    /\ pending # <<>>

InputName(k) == <<73, 78, 48 + k>>
\* scenario S5 of the specification: the row and the digital byte
S5Row == <<InputName(1), InputName(2), Star, InputName(4), InputName(5), InputName(6), InputName(7), InputName(8)>>
S5Data == FmData(209, <<177>>)      \* 177 = 0b10110001
\* a row without an unused point
PlainRow == <<InputName(1), InputName(2), InputName(3), InputName(4), InputName(5), InputName(6), InputName(7), InputName(8)>>

\* stored configurations: what autoconfig_fastmeter keeps for a relay with
\* 0, 1 or 2 digital banks
MeterDefinitions == {fast_meter_configuration_block(FmConfig(193, banks)).val : banks \in 0..2}
\* stored DNA maps: what autoconfig keeps for DNA replies of 0, 1 and 2 rows
MeterDnaMaps ==
    {relay_dna_block(DnaReply(lines)).val :
        lines \in { <<>>,
                    DnaRowLine(S5Row, 0),
                    DnaRowLine(PlainRow, 0),
                    DnaRowLine(S5Row, 0) \o DnaRowLine(Row2, 0),
                    DnaRowLine(Row1, 0) \o DnaRowLine(Row2, 0) }}
DigitalBytes == {0, 1, 8, 129, 177, 255}
\* data frames with 0, 1 and 2 digital bytes, one with a failing checksum and
\* one cut short
MeterFrames ==
    {FmData(209, banks) : banks \in SeqsUpTo(DigitalBytes, 2)}
    \cup {BadSum(S5Data), SubSeq(S5Data, 1, 4)}

MeterInit ==
    /\ data \in [bytes : MeterFrames, definition : MeterDefinitions, dna_def : MeterDnaMaps]
    /\ op = "none"
    /\ result = Ok(<<>>)
    /\ SessionInit

FastMeterBlock ==
    Apply("fast_meter_block", fast_meter_block(data.bytes, data.definition, data.dna_def))

MeterNext == FastMeterBlock

MeterSpec == MeterInit /\ [][MeterNext]_vars

(***************************************************************************)
(* Claims about fast_meter_block (MeterSpec)                               *)
(***************************************************************************)
MeterDecoded == op = "fast_meter_block"
ChecksumValid(bytes) == _cast_bytearray(bytes).err = "none"

\* C11: for every stored configuration and DNA map with numdigitalbank different
\* from the number of rows of the DNA map (0 banks with a non-empty map and
\* banks with an empty map included), fast_meter_block on a checksum-valid data
\* frame fails with DnaDigitalsMisMatch and returns no sample.
C11_BankMismatchIsError ==
    (/\ MeterDecoded
     /\ ChecksumValid(data.bytes)
     /\ data.definition.numdigitalbank # Len(data.dna_def))
    => result.err = "DnaDigitalsMisMatch"

\* bit k (0 the least significant) of a byte
Bit(byte, k) == ((byte \div (2 ^ k)) % 2) = 1
\* the names of a DNA map that stand in one place only
PlacesOf(dna_def, name) ==
    {<<i, j>> \in (1..Len(dna_def)) \X (1..8) : j <= Len(dna_def[i]) /\ dna_def[i][j] = name}
S5Digitals ==
    [n \in {InputName(1), InputName(2), InputName(4), InputName(5), InputName(6), InputName(7), InputName(8)} |->
        n \in {InputName(1), InputName(5), InputName(6), InputName(8)}]

\* C12: scenario S5: with the first row [IN1, IN2, *, IN4, IN5, IN6, IN7, IN8] and
\* the digital byte 0b10110001 the digitals are exactly {IN1: true, IN2: false,
\* IN4: false, IN5: true, IN6: true, IN7: false, IN8: true}; in general the j-th
\* name of bank i is paired with one fixed bit of the byte at digitalOffset + i
\* (the bit S5 pairs it with), and the name '*' is not in the result.
C12_S5DigitalDecode ==
    (MeterDecoded /\ result.err = "none") =>
        /\ Star \notin DOMAIN result.val.digitals
        /\ (data.dna_def = <<S5Row>> /\ data.bytes = S5Data)
              => result.val.digitals = S5Digitals
        /\ \A n \in DOMAIN result.val.digitals :
              \A p \in PlacesOf(data.dna_def, n) :
                 PlacesOf(data.dna_def, n) = {p}
                 => result.val.digitals[n]
                      = Bit(PyGet(data.bytes, data.definition.digitaloffset + p[1] - 1),
                            p[2] - 1)

(***************************************************************************)
(* Fast Operate: prepare_fastop_command of selprotopy/commands.py and the  *)
(* two senders of SelClient.  Control types, control points and commands   *)
(* are text, kept as bytes.                                                *)
(***************************************************************************)
FAST_OP_REMOTE_BIT == <<165, 224>>
FAST_OP_BREAKER_BIT == <<165, 227>>

\* str.lower() on ASCII letters
Lower(s) == [k \in 1..Len(s) |-> IF s[k] >= 65 /\ s[k] <= 90 THEN s[k] + 32 ELSE s[k]]

REMOTE_BIT == <<114, 101, 109, 111, 116, 101, 95, 98, 105, 116>>        \* 'remote_bit'
BREAKER_BIT == <<98, 114, 101, 97, 107, 101, 114, 95, 98, 105, 116>>   \* 'breaker_bit'
\* the text of the keys of a breaker or remote-bit record
KeyText ==
    [open |-> <<111, 112, 101, 110>>, close |-> <<99, 108, 111, 115, 101>>,
     clear |-> <<99, 108, 101, 97, 114>>, set |-> <<115, 101, 116>>,
     pulse |-> <<112, 117, 108, 115, 101>>]
\* ['set', 'clear', 'pulse', 'open', 'close']
CommandTypes == {KeyText.set, KeyText.clear, KeyText.pulse, KeyText.open, KeyText.close}

\* int(re.findall(r'(\d+)', control_point)[0]): the first run of digits
RECURSIVE Decimal(_)
Decimal(digits) ==
    IF digits = <<>> THEN 0
    ELSE 10 * Decimal(SubSeq(digits, 1, Len(digits) - 1)) + (digits[Len(digits)] - 48)
FirstNumber(text) ==
    LET starts == {k \in 1..Len(text) : IsDigit(text[k])}
        From(k) ==
            LET ends == {e \in k..Len(text) : \A i \in k..e : IsDigit(text[i])}
            IN Decimal(SubSeq(text, k, CHOOSE e \in ends : \A x \in ends : x <= e))
    IN IF starts = {} THEN Raise("IndexError") ELSE Ok(From(Min(starts)))

\* record[command]: the key is compared as it was given
Lookup(record, command) ==
    LET keys == {k \in DOMAIN record : KeyText[k] = command}
    IN IF keys = {} THEN Raise("KeyError") ELSE Ok(record[CHOOSE k \in keys : TRUE])

\* the frame without a mask on the validation byte
prepare_fastop_command_unmasked(control_type, control_point, command, fastop_def) ==
    LET Frame(body) == Ok(body \o <<eval_checksum(body, TRUE)>>)
        Built(command_string, control) ==
            IF control.err # "none" THEN Raise("ValueError")
            ELSE Frame(command_string \o <<control.val, control.val * 4 + 1>>)
        Controlled(command_string, point) ==
            IF ~PyInRange(fastop_def.remotebitconfig, point - 1) THEN Raise("IndexError")
            ELSE Built(command_string,
                       Lookup(PyGet(fastop_def.remotebitconfig, point - 1), command))
        Typed(point) ==
            IF Lower(command) \notin CommandTypes THEN Raise("ValueError")
            ELSE IF Lower(control_type) = REMOTE_BIT
            THEN Controlled(FAST_OP_REMOTE_BIT \o <<6>>, point)
            ELSE IF Lower(control_type) = BREAKER_BIT
            THEN Controlled(FAST_OP_BREAKER_BIT \o <<6>>, point)
            ELSE Raise("NameError")
        Numbered(point) == IF point.err # "none" THEN point ELSE Typed(point.val)
    IN Numbered(FirstNumber(control_point))

\* prepare_fastop_command: the point number, the command test, the header by
\* control type, the control code looked up in remotebitconfig under the
\* command as given, the validation byte and the checksum.  The name
\* InvalidControlType is not defined in commands.py: raising it is a NameError.
prepare_fastop_command(control_type, control_point, command, fastop_def) ==
    LET Frame(body) == Ok(body \o <<eval_checksum(body, TRUE)>>)
        Built(command_string, control) ==
            IF control.err # "none" THEN Raise("ValueError")
            ELSE Frame(command_string \o <<control.val, (control.val * 4 + 1) % 256>>)
        Controlled(command_string, point) ==
            IF ~PyInRange(fastop_def.remotebitconfig, point - 1) THEN Raise("IndexError")
            ELSE Built(command_string,
                       Lookup(PyGet(fastop_def.remotebitconfig, point - 1), command))
        Typed(point) ==
            IF Lower(command) \notin CommandTypes THEN Raise("ValueError")
            ELSE IF Lower(control_type) = REMOTE_BIT
            THEN Controlled(FAST_OP_REMOTE_BIT \o <<6>>, point)
            ELSE IF Lower(control_type) = BREAKER_BIT
            THEN Controlled(FAST_OP_BREAKER_BIT \o <<6>>, point)
            ELSE Raise("NameError")
        Numbered(point) == IF point.err # "none" THEN point ELSE Typed(point.val)
    IN Numbered(FirstNumber(control_point))

\* the common body of the two senders: self.fastOpDef is read (the attribute
\* exists once autoconfig_fastoperate stored it), the command is prepared and
\* written
SendFastOp(self, control_type, control_point, command) ==
    LET Sent(command_str) ==
            [err |-> command_str.err,
             tx |-> IF command_str.err = "none" THEN <<command_str.val>> ELSE <<>>,
             val |-> command_str.val]
    IN IF self.fastOpDef = Absent THEN [err |-> "AttributeError", tx |-> <<>>, val |-> <<>>]
       ELSE Sent(prepare_fastop_command(control_type, control_point, command,
                                           self.fastOpDef.val))
send_breaker_bit_fast_op(self, control_point, command) ==
    SendFastOp(self, BREAKER_BIT, control_point, command)
send_remote_bit_fast_op(self, control_point, command) ==
    SendFastOp(self, REMOTE_BIT, control_point, command)

(***************************************************************************)
(* The Fast Operate specification: a client that ran autoconfig_fastoperate *)
(* against one Fast Operate configuration, and one call of                 *)
(* prepare_fastop_command or of one of the two senders                     *)
(***************************************************************************)
TRIP == <<116, 114, 105, 112>>                 \* 'trip'
\* Fast Operate configurations: scenario S3 (one breaker, remote bit 1 with
\* pulse code 7), two remote bits without pulse, two breakers and two remote
\* bits, and one remote bit with clear code c for every byte c
FoFrames ==
    { FoConfig,
      MkFrame(206, <<1, 0, 2, 0, 0, 49, 50, 0, 1, 2, 3>>),
      MkFrame(206, <<2, 0, 2, 1, 0, 49, 50, 51, 52, 0, 1, 7, 16, 17, 18>>) }
    \cup {MkFrame(206, <<0, 0, 1, 1, 0, c, (c + 1) % 256, (c + 2) % 256>>) : c \in Byte}
\* the client after autoconfig_fastoperate read the configuration (fastOpDef
\* stays absent when the reply did not parse)
FastOpClients ==
    {autoconfig_fastoperate(NewClient, CleanPiece.nominal \o <<Reply(f)>>).self : f \in FoFrames}

ControlTypes == {REMOTE_BIT, BREAKER_BIT, <<82, 69, 77, 79, 84, 69, 95, 66, 73, 84>>, <<111, 116, 104, 101, 114>>}
ControlPoints == {<<82, 66, 49>>, <<82, 66, 50>>, <<82, 66, 48>>, <<82, 66>>}
ControlCommands ==
    CommandTypes \cup {TRIP, <<122, 97, 112>>, <<80, 85, 76, 83, 69>>, <<83, 69, 84>>, <<84, 82, 73, 80>>, <<67, 108, 111, 115, 101>>}

FastOpInit ==
    /\ client \in FastOpClients
    /\ pending = <<>>
    /\ wire = <<>>
    /\ pc = "idle"
    /\ call = NoCall
    /\ attempts = 0
    /\ cnt = 0
    /\ execs = 0
    /\ fed = <<>>
    /\ lastErr = "none"
    /\ done = NoStep
    /\ raised = "none"
    /\ ret = None
    /\ faults = 0
    /\ data = <<>>
    /\ op = "none"
    /\ result = Ok(<<>>)

FastOpArgs(control_type, control_point, command) ==
    [control_type |-> control_type, control_point |-> control_point, command |-> command]

\* commands.prepare_fastop_command called with the client's fastOpDef
PrepareFastopCommand(control_type, control_point, command) ==
    /\ pc = "idle"
    /\ op = "none"
    /\ client.fastOpDef # Absent
    /\ data' = FastOpArgs(control_type, control_point, command)
    /\ op' = "prepare_fastop_command"
    /\ result' = prepare_fastop_command(control_type, control_point, command,
                                        client.fastOpDef.val)
    /\ call' = NoCall
    /\ wire' = <<>>
    /\ raised' = "none"
    /\ UNCHANGED <<client, pending, pc, attempts, cnt, execs, fed, lastErr, done, ret, faults>>

\* a sender was called: what it raised and what it wrote
Sending(name, control_type, control_point, command, r) ==
    /\ pc = "idle"
    /\ op = "none"
    /\ data' = FastOpArgs(control_type, control_point, command)
    /\ op' = name
    /\ result' = [err |-> r.err, val |-> r.val]
    /\ call' = Call(name, 0)
    /\ wire' = r.tx
    /\ raised' = r.err
    /\ UNCHANGED <<client, pending, pc, attempts, cnt, execs, fed, lastErr, done, ret, faults>>

SendBreakerBitFastOp(control_point, command) ==
    Sending("send_breaker_bit_fast_op", BREAKER_BIT, control_point, command,
            send_breaker_bit_fast_op(client, control_point, command))
SendRemoteBitFastOp(control_point, command) ==
    Sending("send_remote_bit_fast_op", REMOTE_BIT, control_point, command,
            send_remote_bit_fast_op(client, control_point, command))

FastOpNext ==
    \/ \E t \in ControlTypes, p \in ControlPoints, c \in ControlCommands :
          PrepareFastopCommand(t, p, c)
    \/ \E p \in ControlPoints, c \in ControlCommands : SendBreakerBitFastOp(p, c)
    \/ \E p \in ControlPoints, c \in ControlCommands : SendRemoteBitFastOp(p, c)

FastOpSpec == FastOpInit /\ [][FastOpNext]_vars

(***************************************************************************)
(* Claims about Fast Operate (FastOpSpec)                                  *)
(***************************************************************************)
FastOpCalls == {"prepare_fastop_command", "send_breaker_bit_fast_op", "send_remote_bit_fast_op"}
\* a call returned a frame
Assembled == op \in FastOpCalls /\ result.err = "none"

\* C13: every byte string prepare_fastop_command returns has exactly 6 bytes:
\* A5 E0 for control type remote_bit and A5 E3 for breaker_bit, then 0x06, the
\* control code, the validation byte (code * 4 + 1) mod 256 and the checksum,
\* the sum of the five bytes before it mod 256; every byte is in 0..255.
C13_FastOpFrame ==
    Assembled =>
        /\ Len(result.val) = 6
        /\ \A k \in 1..6 : result.val[k] \in Byte
        /\ Lower(data.control_type) = REMOTE_BIT => SubSeq(result.val, 1, 2) = <<165, 224>>
        /\ Lower(data.control_type) = BREAKER_BIT => SubSeq(result.val, 1, 2) = <<165, 227>>
        /\ result.val[3] = 6
        /\ result.val[5] = (result.val[4] * 4 + 1) % 256
        /\ result.val[6] = (result.val[1] + result.val[2] + result.val[3] + result.val[4]
                            + result.val[5]) % 256
\* a frame whose validation byte wrapped: control code 255
C13_Witness ==
    /\ op = "prepare_fastop_command"
    /\ result.err = "none"
    /\ data.control_type = REMOTE_BIT
    /\ result.val[4] = 255
    /\ result.val[5] = 253

\* the record the claim takes the code from, and the key of the command in it
FastOpRecords(fastop_def, control_type) ==
    IF Lower(control_type) = REMOTE_BIT THEN fastop_def.remotebitconfig
    ELSE fastop_def.breakerconfig
CommandKeys(control_type, command) ==
    IF Lower(control_type) = REMOTE_BIT
    THEN {k \in {"clear", "set", "pulse"} : KeyText[k] = Lower(command)}
    ELSE {k \in {"open", "close"} :
            KeyText[k] = Lower(command) \/ (k = "open" /\ Lower(command) = TRIP)}
S3Frame == <<165, 224, 6, 7, 29, 175>>

\* C14: the control byte of an assembled command is the code the captured
\* configuration holds for the requested point and command: for remote bit n
\* the clear, set or pulse code of the n-th remote-bit record, for breaker n the
\* open (trip) or close code of the n-th breaker record, never a code of a
\* remote-bit record; ('remote_bit', 'RB1', 'pulse') with pulse code 0x07
\* yields A5 E0 06 07 1D and the checksum.
C14_FastOpControlCode ==
    (Assembled /\ FirstNumber(data.control_point).val >= 1) =>
        LET records == FastOpRecords(client.fastOpDef.val, data.control_type)
            n == FirstNumber(data.control_point).val
            keys == CommandKeys(data.control_type, data.command)
        IN /\ n \in 1..Len(records)
           /\ \E k \in keys : k \in DOMAIN records[n] /\ result.val[4] = records[n][k]
           /\ (/\ data = FastOpArgs(REMOTE_BIT, <<82, 66, 49>>, KeyText.pulse)
               /\ client.fastOpDef.val.remotebitconfig[1].pulse = 7)
              => result.val = S3Frame

\* the commands of a control type
AllowedCommands(control_type) ==
    IF Lower(control_type) = REMOTE_BIT THEN CommandTypes ELSE {TRIP, KeyText.close}
\* the request names a point of the configuration and a known control type
WellAddressed ==
    /\ op \in FastOpCalls
    /\ client.fastOpDef # Absent
    /\ Lower(data.control_type) \in {REMOTE_BIT, BREAKER_BIT}
    /\ FirstNumber(data.control_point).err = "none"
    /\ FirstNumber(data.control_point).val
          \in 1..Len(FastOpRecords(client.fastOpDef.val, data.control_type))

\* C15: for a remote bit each of SET, CLEAR, PULSE (when the relay supports
\* pulse), OPEN and CLOSE is accepted and yields a frame, for a breaker each of
\* TRIP and CLOSE, whatever the letter case of the command; every command
\* outside the set of its control type is rejected.
C15_FastOpAcceptedCommands ==
    WellAddressed =>
        (result.err = "none"
         <=> /\ Lower(data.command) \in AllowedCommands(data.control_type)
             /\ (Lower(data.command) = KeyText.pulse
                   => client.fastOpDef.val.pulsesupported = 1))

\* C16: a control type other than remote_bit and breaker_bit raises
\* InvalidControlType, a command outside the allowed set raises
\* InvalidCommandType, and in every such case the senders write nothing.
C16_FastOpTypedErrors ==
    (op \in FastOpCalls /\ client.fastOpDef # Absent
     /\ FirstNumber(data.control_point).err = "none") =>
        /\ (/\ Lower(data.control_type) \notin {REMOTE_BIT, BREAKER_BIT}
            /\ Lower(data.command) \in CommandTypes \cup {TRIP})
           => result.err = "InvalidControlType"
        /\ (/\ Lower(data.control_type) \in {REMOTE_BIT, BREAKER_BIT}
            /\ Lower(data.command) \notin AllowedCommands(data.control_type))
           => (result.err = "InvalidCommandType" /\ wire = <<>>)

(***************************************************************************)
(* The connection specification: SelClient.__init__ from the attribute     *)
(* defaults on, with _verify_connection one round at a time, quit() and    *)
(* the optional autoconfig().  data holds the keyword arguments and the    *)
(* locals of _verify_connection.                                           *)
(***************************************************************************)
MaxChecks == 2
DefaultChecks == 5      \* self.__num_con_check__ without the keyword conn_check
ConnChecks == (0..MaxChecks) \cup {DefaultChecks}

\* what one read of a round can return: a prompt (level 0 with a new line, level
\* 0, level 1), an empty line, nothing
ProbeReplies == {PE, P0, P1, CR, Silence}
Probe == CR \o CR \o CR

\* the for loop of _verify_connection goes on without the break
MoreRoundsNoBreak(round, check, connected) == round < check
\* the for loop of _verify_connection goes on: range() is not exhausted and
\* no round hit the break
MoreRounds(round, check, connected) == round < check /\ ~connected

\* __init__ goes on to quit() whatever the verification returned
AfterVerificationUnchecked(connected) == "constructor_quit"
\* __init__, lines 158-159: what follows the verification
AfterVerification(connected) == IF connected THEN "constructor_quit" ELSE "idle"

ConnInit ==
    /\ data \in [check : ConnChecks, round : {0}, connected : {FALSE},
                 noverify : BOOLEAN, autoconfig : BOOLEAN]
    /\ op = "__init__"
    /\ result = Ok(<<>>)
    /\ client = NewClient
    /\ pending = <<>>
    /\ wire = <<>>
    /\ pc = IF data.noverify THEN "constructor_quit" ELSE "verify"
    /\ call = Call("__init__", data.check)
    /\ attempts = 0
    /\ cnt = 0
    /\ execs = 0
    /\ fed = <<>>
    /\ lastErr = "none"
    /\ done = NoStep
    /\ raised = "running"
    /\ ret = None
    /\ faults = 0

\* one round of _verify_connection: the probe is written, one read, the test
\* for the prompt
VerifyRound ==
    /\ pc = "verify"
    /\ MoreRounds(data.round, data.check, data.connected)
    /\ \E response \in ProbeReplies :
          /\ wire' = Append(wire, Probe)
          /\ fed' = Append(fed, response)
          /\ data' = [data EXCEPT !.round = @ + 1,
                                  !.connected = Contains(response, LEVEL_0)]
    /\ UNCHANGED <<op, result, client, pending, pc, call, attempts, cnt, execs, lastErr,
                   done, raised, ret, faults>>

\* _verify_connection returns connected; __init__ raises when it is false
VerifyReturn ==
    /\ pc = "verify"
    /\ ~MoreRounds(data.round, data.check, data.connected)
    /\ pc' = AfterVerification(data.connected)
    /\ raised' = IF pc' = "idle" THEN "ConnVerificationFail" ELSE raised
    /\ UNCHANGED <<data, op, result, client, pending, wire, call, attempts, cnt, execs, fed,
                   lastErr, done, ret, faults>>

\* __init__, lines 162-168: quit(), then autoconfig() when asked for
ConstructorQuit ==
    /\ pc = "constructor_quit"
    /\ \E s \in Feed(<<QuitPiece, CleanPiece>>) :
          \E r \in {quit(s.rx)} :
             /\ faults' = faults + s.cost
             /\ pending' = r.rx
             /\ wire' = wire \o r.tx
             /\ IF r.hung THEN pc' = "hung" /\ UNCHANGED raised
                ELSE IF r.err # "none" THEN Return(r.err)
                ELSE IF data.autoconfig THEN pc' = "constructor_autoconfig" /\ UNCHANGED raised
                ELSE Return("none")
    /\ UNCHANGED <<data, op, result, client, call, attempts, cnt, execs, fed, lastErr, done,
                   ret>>

\* self.autoconfig(verbose=verbose) up to its first step
ConstructorAutoconfig ==
    /\ pc = "constructor_autoconfig"
    /\ \E s \in Feed(<<QuitPiece, CleanPiece>>) :
          \E r \in {quit(s.rx)} :
             /\ faults' = faults + s.cost
             /\ pending' = r.rx
             /\ wire' = wire \o r.tx
             /\ IF r.hung THEN pc' = "hung" /\ UNCHANGED raised /\ NoWrapper
                ELSE IF r.err # "none" THEN Return(r.err) /\ NoWrapper
                ELSE EnterStep("autoconfig_relay_definition", 0) /\ UNCHANGED raised
    /\ call' = Call("autoconfig", 0)
    /\ UNCHANGED <<data, op, result, client, done, ret>>

ConnNext ==
    \/ VerifyRound
    \/ VerifyReturn
    \/ ConstructorQuit
    \/ ConstructorAutoconfig
    \/ RelayDefinitionAttempt
    \/ FastMeterAttempt
    \/ FastMeterDemandAttempt
    \/ FastMeterPeakDemandAttempt
    \/ FastOperateAttempt
    \/ AutoconfigNames

ConnSpec == ConnInit /\ [][ConnNext]_vars

(***************************************************************************)
(* Claims about the constructor (ConnSpec)                                 *)
(***************************************************************************)
\* the constructor is verifying or has verified the connection, and no other
\* public call has begun
Verifying == op = "__init__" /\ call.name = "__init__" /\ ~data.noverify
HasPrompt(response) == \E k \in 1..Len(response) : response[k] = 61    \* '='
OnlyProbes(writes) == \A k \in 1..Len(writes) : writes[k] = CR \o CR \o CR

\* C17: _verify_connection performs at most N rounds (N the connection-check
\* budget), each one write of three CRLF and one read; it returns true at the
\* first round whose response holds '=' and performs no round after it; it
\* returns false after exactly N rounds when no response held '='.
C17_VerificationBounded ==
    Verifying =>
        /\ data.round <= data.check
        /\ Len(fed) = data.round
        /\ Len(wire) >= data.round
        /\ OnlyProbes(SubSeq(wire, 1, data.round))
        /\ pc = "verify" => Len(wire) = data.round
        /\ \A k \in 1..(data.round - 1) : ~HasPrompt(fed[k])
        /\ data.connected <=> (data.round >= 1 /\ HasPrompt(fed[data.round]))
        /\ pc \notin {"verify", "idle"} => data.connected
        /\ (pc = "idle" /\ raised = "ConnVerificationFail")
              => (~data.connected /\ data.round = data.check)
\* verified at the second of five rounds
C17_Witness ==
    /\ Verifying
    /\ pc = "constructor_quit"
    /\ data.check = 5
    /\ data.round = 2
    /\ data.connected
    /\ wire = <<CR \o CR \o CR, CR \o CR \o CR>>

\* C18: when the verification fails the constructor raises ConnVerificationFail,
\* and up to that point only the CRLF probes of the rounds were written (no QUI,
\* no ACC, no binary request) and no auto-configuration step has run.
C18_FailurePrecedesWork ==
    /\ (op = "__init__" /\ ~data.noverify /\ ~data.connected) =>
          /\ pc \in {"verify", "idle"}
          /\ pc = "idle" => raised = "ConnVerificationFail"
          /\ OnlyProbes(wire)
          /\ Len(wire) = data.round
          /\ client = NewClient
          /\ call.name = "__init__"
          /\ done = NoStep
          /\ execs = 0
    /\ (op = "__init__" /\ raised = "ConnVerificationFail")
          => (~data.noverify /\ ~data.connected /\ pc = "idle")
\* two rounds without a prompt, then the exception
C18_Witness ==
    /\ op = "__init__"
    /\ raised = "ConnVerificationFail"
    /\ pc = "idle"
    /\ data.check = 2
    /\ Len(wire) = 2
    /\ ~HasPrompt(fed[1])
    /\ ~HasPrompt(fed[2])

(***************************************************************************)
(* The access specification: access_level_1 or access_level_2 called once  *)
(* on a transport that holds the replies to its reads                      *)
(***************************************************************************)
PCal == CR \o LEVEL_C             \* "\r\n==>>" the prompt of level CAL
\* the two prompts access_level reads
LevelReplies ==
    { <<P0, P0>>, <<P1, P1>>, <<P2, P2>>, <<PCal, PCal>>, <<P0, P1>>, <<Silence, Silence>> }
\* the replies to the reads after them
LoginReplies == {P0, P1, P2, Invalid \o P0, Silence}
AccessScripts == {l \o r : l \in LevelReplies, r \in SeqsUpTo(LoginReplies, 4)}

AccessInit ==
    /\ data \in AccessScripts
    /\ op = "none"
    /\ result = Ok(<<>>)
    /\ SessionInit

AccessLevel1 == Apply("access_level_1", access_level_1(data))
AccessLevel2 == Apply("access_level_2", access_level_2(data))

AccessNext ==
    \/ AccessLevel1
    \/ AccessLevel2

AccessSpec == AccessInit /\ [][AccessNext]_vars

(***************************************************************************)
(* Claims about the access levels (AccessSpec)                             *)
(***************************************************************************)
\* the k-th read of the call
ReadAt(k) == IF k <= Len(data) THEN data[k] ELSE <<>>
\* the level two prompts show: the highest one found
ShownLevel(first, second) ==
    LET Shows(mark) == Contains(first \o second, mark)
    IN IF Shows(<<61, 61, 62, 62>>) THEN 3
       ELSE IF Shows(<<61, 62, 62>>) THEN 2
       ELSE IF Shows(<<61, 62>>) THEN 1
       ELSE 0
Detected == ShownLevel(ReadAt(1), ReadAt(2))
\* access_level_2 from level 0: the level access_level_1 detects in its turn
DetectedAgain == ShownLevel(ReadAt(3), ReadAt(4))
Refused(response) == Contains(response, <<73, 110, 118, 97, 108, 105, 100>>)
\* the places of a write among the writes of the call
Places(message) == {k \in 1..Len(result.tx) : result.tx[k] = message}
\* a password is written only right after its command
RightAfter(password, command) == \A k \in Places(password) : k - 1 \in Places(command)

\* C19, as stated: access_level_1 writes ACC, and the level-1 password if and
\* only if the level it detected is 0; access_level_2 writes 2AC, and the
\* level-2 password if and only if the level it detected is 0 or 1; no
\* password is written at a level above the target, and a password is written
\* after, never before, its ACC or 2AC command.
C19_PasswordOnAscentOnly ==
    /\ op = "access_level_1" =>
          /\ Places(GO_ACC) # {}
          /\ Places(PASS_ACC \o CR) # {} <=> Detected = 0
          /\ RightAfter(PASS_ACC \o CR, GO_ACC)
    /\ op = "access_level_2" =>
          /\ Places(GO_2AC) # {}
          /\ Places(PASS_2AC \o CR) # {} <=> Detected \in {0, 1}
          /\ RightAfter(PASS_2AC \o CR, GO_2AC)
          /\ RightAfter(PASS_ACC \o CR, GO_ACC)

\* C19, amended: access_level_2 called at level 0 whose ACC login is refused
\* writes neither 2AC nor the level-2 password; in every other case 2AC is
\* written, and the level-2 password if and only if the detected level is 0 or 1.
C19_PasswordOnAscent ==
    /\ op = "access_level_1" =>
          /\ result.tx = <<CR, CR, GO_ACC>>
                         \o (IF Detected = 0 THEN <<PASS_ACC \o CR>> ELSE <<>>)
    /\ op = "access_level_2" =>
          /\ Places(GO_2AC) = {} <=> (Detected = 0 /\ Refused(ReadAt(5)))
          /\ Cardinality(Places(GO_2AC)) <= 1
          /\ Places(PASS_2AC \o CR) # {} <=> (Places(GO_2AC) # {} /\ Detected \in {0, 1})
          /\ RightAfter(PASS_2AC \o CR, GO_2AC)
          /\ Places(GO_ACC) # {} <=> Detected = 0
          /\ Places(PASS_ACC \o CR) # {} <=> (Detected = 0 /\ DetectedAgain = 0)
          /\ RightAfter(PASS_ACC \o CR, GO_ACC)
          /\ Detected >= 2 => (Places(PASS_ACC \o CR) = {} /\ Places(PASS_2AC \o CR) = {})
\* access_level_2 at level 1: 2AC, then the password
C19_Witness ==
    /\ op = "access_level_2"
    /\ Detected = 1
    /\ result.tx = <<CR, CR, GO_2AC, PASS_2AC \o CR>>
    /\ result.val

\* C20: access_level_2 called at level 0 first performs the complete ACC login;
\* when that login fails it returns false and writes neither 2AC nor the
\* level-2 password; 2AC is written only after the ACC login reported success,
\* or when the detected level was at least 1.
C20_ThroughLevelOne ==
    op = "access_level_2" =>
        LET login == <<CR, CR, GO_ACC>>
                     \o (IF DetectedAgain = 0 THEN <<PASS_ACC \o CR>> ELSE <<>>)
        IN /\ Detected = 0 =>
                /\ SubSeq(result.tx, 1, 2 + Len(login)) = <<CR, CR>> \o login
                /\ Refused(ReadAt(5)) =>
                      /\ ~result.val
                      /\ result.tx = <<CR, CR>> \o login
                      /\ Places(GO_2AC) = {}
                      /\ Places(PASS_2AC \o CR) = {}
                /\ ~Refused(ReadAt(5)) => Places(GO_2AC) = {2 + Len(login) + 1}
           /\ Places(GO_2AC) # {} => (Detected >= 1 \/ ~Refused(ReadAt(5)))
           /\ Detected >= 1 => (Places(GO_ACC) = {} /\ Places(GO_2AC) = {3})
\* the ACC login was refused at level 0: false, and no 2AC
C20_Witness ==
    /\ op = "access_level_2"
    /\ Detected = 0
    /\ DetectedAgain = 0
    /\ Refused(ReadAt(5))
    /\ ~result.val
    /\ result.tx = <<CR, CR, CR, CR, GO_ACC, PASS_ACC \o CR>>

\* the read that answers the login: the third read of the call, or the sixth
\* when access_level_2 went through an accepted ACC login
LoginRead ==
    IF op = "access_level_2" /\ Detected = 0
    THEN (IF Refused(ReadAt(5)) THEN ReadAt(5) ELSE ReadAt(6))
    ELSE ReadAt(3)
\* the transport delivered the prompt the read waited for
Prompted(response) == Contains(response, LEVEL_0)

\* C21: access_level_1 and access_level_2 return false when the relay's reply
\* holds 'Invalid' and also when the read that follows the password timed out
\* without delivering a prompt; they return true only when a prompt that does
\* not hold 'Invalid' was received.
C21_LoginFailureReported ==
    op \in {"access_level_1", "access_level_2"} =>
        /\ result.val \in BOOLEAN
        /\ Refused(LoginRead) => ~result.val
        /\ ~Prompted(LoginRead) => ~result.val
        /\ result.val => (Prompted(LoginRead) /\ ~Refused(LoginRead))

(***************************************************************************)
(* The read specification: _read_command_response, one loop iteration per  *)
(* step, on a transport that delivers the replies of a script and is       *)
(* silent afterwards                                                       *)
(***************************************************************************)
MaxReplies == 4
ReadCommands == {ID, RELAY_DEFINITION, CR}
\* a read that times out, parts of the echo of ID, a prompt and a refusal
ReadChunks == {Silence, <<73>>, <<68, 13, 10>>, P0, Refusal}
ReadScripts == SeqsUpTo(ReadChunks, MaxReplies)

\* the loop condition: the command is not in the response and i < 10
KeepReading(command, response, i) ==
    Find(response, command) = -1 /\ i < MaxIdleReads
\* the counter that never returns to zero
IdleCountNoReset(i, before, after) == i + 1
\* i = 0 if len(response) != sz else i + 1
IdleCount(i, before, after) ==
    IF Len(after) # Len(before) THEN 0 ELSE i + 1

ReadInit ==
    /\ data \in {[command |-> c, script |-> s, rx |-> s, response |-> <<>>,
                  i |-> 0, reads |-> <<>>, state |-> "reading"]
                    : c \in ReadCommands, s \in ReadScripts}
    /\ op = "_read_command_response"
    /\ result = Ok(<<>>)
    /\ SessionInit

\* one iteration: a read to the prompt, the counter, the refusal test
ReadToPrompt ==
    /\ data.state = "reading"
    /\ KeepReading(StripCrLf(data.command), data.response, data.i)
    /\ \E grown \in {data.response \o ReadHead(data.rx)} :
          /\ data' = [data EXCEPT
                        !.response = grown,
                        !.i = IdleCount(data.i, data.response, grown),
                        !.rx = ReadTail(data.rx),
                        !.reads = Append(data.reads, ReadHead(data.rx)),
                        !.state = IF Contains(grown, INVALID_COMMAND_STR)
                                  THEN "raised" ELSE "reading"]
          /\ result' = IF Contains(grown, INVALID_COMMAND_STR)
                       THEN [err |-> "InvalidCommand", val |-> grown]
                       ELSE result
    /\ UNCHANGED <<op, sessionVars>>

\* the loop condition is false: the response is returned
ReadReturn ==
    /\ data.state = "reading"
    /\ ~KeepReading(StripCrLf(data.command), data.response, data.i)
    /\ data' = [data EXCEPT !.state = "returned"]
    /\ result' = Ok(data.response)
    /\ UNCHANGED <<op, sessionVars>>

ReadNext ==
    \/ ReadToPrompt
    \/ ReadReturn

ReadSpec == ReadInit /\ [][ReadNext]_vars

(***************************************************************************)
(* Claims about the read loop (ReadSpec)                                   *)
(***************************************************************************)
RECURSIVE Joined(_)
Joined(chunks) == IF chunks = <<>> THEN <<>> ELSE Head(chunks) \o Joined(Tail(chunks))
\* the number of reads at the end of a history that added no bytes
RECURSIVE TrailingIdle(_)
TrailingIdle(reads) ==
    IF reads = <<>> \/ reads[Len(reads)] # <<>> THEN 0
    ELSE 1 + TrailingIdle(SubSeq(reads, 1, Len(reads) - 1))
Sought == StripCrLf(data.command)

IdText(k) == <<34>> \o RE_ID_BLOCKS[k].name \o <<61>> \o IdValues[k] \o <<34, 44>>
\* the checksum fields: the sum, the sum modulo 256, the sum plus one
IdFields == {"sum", "low_byte", "plus_one"}
IdFieldValue(k, field) ==
    CASE field = "sum" -> SumSeq(IdText(k))
      [] field = "low_byte" -> SumSeq(IdText(k)) % 256
      [] field = "plus_one" -> SumSeq(IdText(k)) + 1
RECURSIVE IdRows(_, _, _, _)
IdRows(k, skip, bad, field) ==
    IF k > Len(RE_ID_BLOCKS) THEN <<>>
    ELSE (IF k = skip THEN <<>>
          ELSE IdText(k) \o <<34>>
               \o Hex4(IdFieldValue(k, IF k = bad THEN field ELSE "sum"))
               \o <<34>> \o CR)
         \o IdRows(k + 1, skip, bad, field)
IdBlock(d) == ID \o <<2>> \o IdRows(1, d.skip, d.bad, d.field) \o <<3>> \o CR \o LEVEL_1

IdInit ==
    /\ data \in [skip : 0..Len(RE_ID_BLOCKS), bad : 0..Len(RE_ID_BLOCKS), field : IdFields]
    /\ op = "none"
    /\ result = Ok(<<>>)
    /\ SessionInit

RelayIdBlock == Apply("relay_id_block", relay_id_block(IdBlock(data)))

IdNext == RelayIdBlock

IdSpec == IdInit /\ [][IdNext]_vars

(***************************************************************************)
(* Claims about the ID block (IdSpec)                                      *)
(***************************************************************************)
\* the rows of the reply, and the value of the checksum field of each
IdPresent == {k \in 1..Len(RE_ID_BLOCKS) : k # data.skip}
IdFieldOf(k) == IdFieldValue(k, IF k = data.bad THEN data.field ELSE "sum")
IdReturned(k) ==
    /\ result.err = "none"
    /\ RE_ID_BLOCKS[k].key \in DOMAIN result.val
    /\ result.val[RE_ID_BLOCKS[k].key] = IdValues[k]

\* C23: for every key present in the reply relay_id_block returns KEY = value
\* if and only if the row's hex checksum field equals the sum of the bytes of
\* "KEY=value", taken modulo 256; when the two differ the call fails with
\* ChecksumFail.
C23_IdRowChecksum ==
    op = "relay_id_block" =>
        \A k \in IdPresent :
            /\ IdReturned(k) <=> IdFieldOf(k) = SumSeq(IdText(k)) % 256
            /\ IdFieldOf(k) # SumSeq(IdText(k)) % 256 => result.err = "ChecksumFail"

(***************************************************************************)
(* The definition specification: relay_definition_block on Relay           *)
(* Definition frames built from a description of their tables              *)
(***************************************************************************)
MaxProtocols == 2
Masks == {0, 1, 2, 3}
Families == {0, 1, 2, 6, 7}
ProtocolRecords == SeqsUpTo([mask : Masks, family : Families], MaxProtocols)
\* one Fast Meter pair, one status record, the protocol records
FmPair == <<165, 193, 165, 209>>
StatusRecord == <<0, 1, 165, 209, 0, 0, 0, 0>>
RECURSIVE ProtocolBytes(_)
ProtocolBytes(records) ==
    IF records = <<>> THEN <<>>
    ELSE <<Head(records).mask, Head(records).family>> \o ProtocolBytes(Tail(records))
RdFrame(d) ==
    MkFrame(192, <<Len(d.protocols), d.fm, d.status>>
                 \o (IF d.fm = 1 THEN FmPair ELSE <<>>)
                 \o <<0>>
                 \o (IF d.status = 1 THEN StatusRecord ELSE <<>>)
                 \o ProtocolBytes(d.protocols)
                 \o [k \in 1..d.pad |-> 0])
\* scenario S2: A5 C0 10 01 01 00 A5 C1 A5 D1 00 01 00, padded to 16 bytes
S2Data == [protocols |-> <<[mask |-> 1, family |-> 0]>>, fm |-> 1, status |-> 0, pad |-> 2]

DefinitionInit ==
    /\ data \in [protocols : ProtocolRecords, fm : {0, 1}, status : {0, 1}, pad : {0, 2}]
    /\ op = "none"
    /\ result = Ok(<<>>)
    /\ SessionInit

DefinitionBlock == Apply("relay_definition_block", relay_definition_block(RdFrame(data)))

DefinitionNext == DefinitionBlock

DefinitionSpec == DefinitionInit /\ [][DefinitionNext]_vars

(***************************************************************************)
(* Claims about the Relay Definition (DefinitionSpec)                      *)
(***************************************************************************)
FamilyName(code) ==
    CASE code = 0 -> "SEL_STANDARD" [] code = 1 -> "SEL_LMD" [] code = 2 -> "MODBUS"
      [] code = 3 -> "SY_MAX" [] code = 4 -> "R_SEL" [] code = 5 -> "DNP3"
      [] code = 6 -> "R6_SEL"
\* a record of a SEL family whose mask has the bit set
Capable(bit) ==
    \E k \in 1..Len(data.protocols) :
        /\ data.protocols[k].family \in {0, 1}
        /\ (data.protocols[k].mask \div bit) % 2 = 1

\* C24: relay_definition_block reads the three counts from offsets 3..5, the
\* Fast Meter pairs from offset 6, one fmtype byte, the status records and the
\* protocol records (mask, family 0..6 named SEL_STANDARD .. R6_SEL);
\* fopcommandinfo is A5 CE if and only if a record of family SEL_STANDARD or
\* SEL_LMD has mask bit 0 set, fmsgcommandinfo is A5 46 if and only if such a
\* record has bit 1 set, and both are empty otherwise; the S2 frame gives one
\* pair (A5C1, A5D1), one protocol SEL_STANDARD with fast_op_en true and
\* fast_msg_en false, and fopcommandinfo A5CE.
C24_RelayDefinitionDecoding ==
    op = "relay_definition_block" =>
        /\ result.err = "none" =>
              /\ result.val.numprotocolsup = Len(data.protocols)
              /\ result.val.fmmessagesup = data.fm
              /\ result.val.statusflagssup = data.status
              /\ result.val.fmcommandinfo =
                    [k \in 1..data.fm |-> [configcommand |-> <<165, 193>>,
                                           command |-> <<165, 209>>]]
              /\ result.val.fmtype = 0
              /\ result.val.statusflaginfo =
                    [k \in 1..data.status |-> [statusbit |-> <<0, 1>>,
                                               affectedcommand |-> <<165, 209, 0, 0, 0, 0>>]]
              /\ Len(result.val.protocols) = Len(data.protocols)
              /\ \A k \in 1..Len(data.protocols) :
                    data.protocols[k].family <= 6 =>
                        /\ result.val.protocols[k].type = FamilyName(data.protocols[k].family)
                        /\ data.protocols[k].family \in {0, 1} =>
                              /\ result.val.protocols[k].fast_op_en
                                    = (data.protocols[k].mask % 2 = 1)
                              /\ result.val.protocols[k].fast_msg_en
                                    = ((data.protocols[k].mask \div 2) % 2 = 1)
              /\ result.val.fopcommandinfo = (IF Capable(1) THEN <<165, 206>> ELSE <<>>)
              /\ result.val.fmsgcommandinfo = (IF Capable(2) THEN <<165, 70>> ELSE <<>>)
        /\ data = S2Data =>
              /\ RdFrame(data) = <<165, 192, 16, 1, 1, 0, 165, 193, 165, 209, 0, 1, 0, 0, 0, 84>>
              /\ result.err = "none"
              /\ result.val.fmcommandinfo =
                    <<[configcommand |-> <<165, 193>>, command |-> <<165, 209>>]>>
              /\ result.val.protocols =
                    <<[type |-> "SEL_STANDARD", fast_op_en |-> TRUE, fast_msg_en |-> FALSE]>>
              /\ result.val.fopcommandinfo = <<165, 206>>
\* a MODBUS record with both bits set beside a SEL_LMD record with bit 1 only
C24_Witness ==
    /\ op = "relay_definition_block"
    /\ data.protocols = <<[mask |-> 3, family |-> 2], [mask |-> 2, family |-> 1]>>
    /\ result.err = "none"
    /\ result.val.fopcommandinfo = <<>>
    /\ result.val.fmsgcommandinfo = <<165, 70>>

(***************************************************************************)
(* The phasor specification: fast_meter_block on samples of two analog     *)
(* channels, IA of either channel type and IB a 2-byte integer, decoded    *)
(* with the configuration the relay announced for them                     *)
(***************************************************************************)
MaxSamples == 4
IntSamples == {0, 1, 300}
\* 0.0, 1.0, -1.0, 1e-9 and -1e-9 as IEEE 4-byte floats
FloatSamples == {<<0, 0, 0, 0>>, <<63, 128, 0, 0>>, <<191, 128, 0, 0>>,
                 <<48, 137, 112, 95>>, <<176, 137, 112, 95>>}
PhasorInputs ==
    {[type |-> 0, values |-> v] : v \in UNION {[1..n -> IntSamples] : n \in 1..MaxSamples}}
    \cup {[type |-> 1, values |-> v] : v \in UNION {[1..n -> FloatSamples] : n \in 1..MaxSamples}}
NameIA == <<73, 65>>
NameIB == <<73, 66>>
SampleOfIB == <<0, 7>>
\* the bytes of one value of IA
PhasorBytes(type, x) == IF type = 0 THEN <<x \div 256, x % 256>> ELSE x
\* the passes: IA then IB, once per sample
RECURSIVE PhasorPasses(_, _)
PhasorPasses(type, values) ==
    IF values = <<>> THEN <<>>
    ELSE PhasorBytes(type, Head(values)) \o SampleOfIB \o PhasorPasses(type, Tail(values))
PhasorConfig(d) ==
    MkFrame(193, <<1, 0, 0, 2, Len(d.values), 1, 0, 0, 4, 0, 0,
                   0, 4 + Len(PhasorPasses(d.type, d.values))>>
                 \o NameIA \o <<0, 0, 0, 0, d.type, 255, 0, 0>>
                 \o NameIB \o <<0, 0, 0, 0, 0, 255, 0, 0>>)
PhasorData(d) == MkFrame(209, <<0>> \o PhasorPasses(d.type, d.values) \o <<177>>)

PhasorInit ==
    /\ data \in PhasorInputs
    /\ op = "none"
    /\ result = Ok(<<>>)
    /\ SessionInit

FastMeterPhasors ==
    Apply("fast_meter_block",
          fast_meter_block(PhasorData(data),
                           fast_meter_configuration_block(PhasorConfig(data)).val,
                           <<S5Row>>))

PhasorNext == FastMeterPhasors

PhasorSpec == PhasorInit /\ [][PhasorNext]_vars

(***************************************************************************)
(* Claims about the analog samples (PhasorSpec)                            *)
(***************************************************************************)
\* the values of the passes of a channel, as the formatters return them
PassesOf(name) ==
    IF name = NameIB THEN [k \in 1..Len(data.values) |-> IntVal(SampleOfIB[1] * 256 + SampleOfIB[2])]
    ELSE [k \in 1..Len(data.values) |->
            IF data.type = 0 THEN IntVal(data.values[k])
            ELSE [kind |-> "f32", v |-> data.values[k]]]
\* the magnitude of a value exceeds 1e-8
Sizeable(x) ==
    IF x.kind = "int" THEN x.v >= 1 ELSE FloatBits(x.v) >= FloatGtThreshold
\* real + imag*i; a phasor without imaginary part is the real number
Phasor(real, imag) ==
    IF Sizeable(imag) THEN [kind |-> "complex", re |-> real, im |-> imag] ELSE real

\* C25: with numsampperchan = 2 fast_meter_block returns for every analog name
\* real + imag*i, real the second-pass value and imag the first-pass value if
\* its magnitude exceeds 1e-8 and 0 otherwise, for first-pass values of either
\* sign; with numsampperchan = 1 the scalar is stored; with any other count the
\* name maps to the list of its samples in pass order.
C25_TwoSamplePhasor ==
    op = "fast_meter_block" =>
        /\ result.err = "none"
        /\ \A name \in {NameIA, NameIB} :
              /\ name \in DOMAIN result.val.analogs
              /\ result.val.analogs[name] =
                    (IF Len(data.values) = 1 THEN PassesOf(name)[1]
                     ELSE IF Len(data.values) = 2
                     THEN Phasor(PassesOf(name)[2], PassesOf(name)[1])
                     ELSE [kind |-> "list", items |-> PassesOf(name)])

(***************************************************************************)
(* The event specification: event_record_request(event_number)             *)
(***************************************************************************)
MaxEvent == 64
EventsBeyond == 8
EventNumbers == (0 - EventsBeyond)..(MaxEvent + EventsBeyond)

\* event_record_request: above 64 a ValueError; otherwise the str that hex()
\* returns is added to the bytes b'\xa5', which raises TypeError
event_record_request(event_number) ==
    IF event_number <= MaxEvent THEN Raise("TypeError") ELSE Raise("ValueError")

EventInit ==
    /\ data \in EventNumbers
    /\ op = "none"
    /\ result = Ok(<<>>)
    /\ SessionInit

EventRecordRequest == Apply("event_record_request", event_record_request(data))

EventNext == EventRecordRequest

EventSpec == EventInit /\ [][EventNext]_vars

\* C26: event_record_request(n) returns exactly the two bytes 0xA5, 0x60 + n
\* for every n in 0..64 and fails with ValueError for every n > 64; it never
\* returns a request for an n outside 0..64.
C26_EventRecordRequest ==
    op = "event_record_request" =>
        /\ data \in 0..64 => result = Ok(<<165, 96 + data>>)
        /\ data > 64 => result.err = "ValueError"
        /\ result.err = "none" => data \in 0..64

(***************************************************************************)
(* Claims about prompt cleaning (Spec)                                     *)
(***************************************************************************)
\* the requests whose reply is parsed
ParsedRequests ==
    {RELAY_DEFINITION \o CR, FM_CONFIG_BLOCK \o CR, FM_DEMAND_CONFIG_BLOCK \o CR,
     FM_PEAK_CONFIG_BLOCK \o CR, FO_CONFIG_BLOCK \o CR, FAST_METER_REGULAR \o CR, DNA, ID}
\* a prompt-cleaning cycle ends with CleanCount writes of a lone CRLF; the
\* write at place k of the call comes right after one
RightAfterClean(k) ==
    /\ k > CleanCount
    /\ \A j \in 1..CleanCount : wire[k - j] = CR

CleanChunks == {Silence, PE, P0, P1, A5}
CleanScripts == SeqsUpTo(CleanChunks, MaxReplies)

\* the loop that is content with one match less
KeepCleaningShort(count) == count < CleanCount - 1
\* while count < 3
KeepCleaning(count) == count < CleanCount

CleanInit ==
    /\ data \in {[script |-> s, rx |-> s, response |-> <<>>, count |-> 0, tx |-> <<>>,
                  reads |-> <<>>, tests |-> <<>>, drained |-> <<>>, state |-> "cleaning"]
                    : s \in CleanScripts}
    /\ op = "_read_clean_prompt"
    /\ result = Ok(<<>>)
    /\ SessionInit

\* one iteration: CRLF is written, a read to the prompt is appended to the
\* response, the response is tested and counted.  A response that does not
\* decode raises; a failed test on a silent transport repeats for ever.
CleanIteration ==
    /\ data.state = "cleaning"
    /\ KeepCleaning(data.count)
    /\ \E clean \in {clean_prompt(data.response \o ReadHead(data.rx))} :
          data' = [data EXCEPT
                     !.tx = Append(data.tx, CR),
                     !.response = data.response \o ReadHead(data.rx),
                     !.rx = ReadTail(data.rx),
                     !.reads = Append(data.reads, ReadHead(data.rx)),
                     !.tests = IF clean.err # "none" THEN data.tests
                               ELSE Append(data.tests, clean.val),
                     !.count = IF clean.val THEN data.count + 1 ELSE 0,
                     !.state = IF clean.err # "none" THEN "raised"
                               ELSE IF ~clean.val /\ ReadTail(data.rx) = <<>> THEN "hung"
                               ELSE "cleaning"]
    /\ UNCHANGED <<op, result, sessionVars>>

\* the loop is left: _clear_input_buffer begins
CleanLeave ==
    /\ data.state = "cleaning"
    /\ ~KeepCleaning(data.count)
    /\ data' = [data EXCEPT !.state = "draining"]
    /\ UNCHANGED <<op, result, sessionVars>>

\* one eager read of _clear_input_buffer; an empty one ends it
CleanDrain ==
    /\ data.state = "draining"
    /\ data' = [data EXCEPT
                  !.drained = Append(data.drained, ReadHead(data.rx)),
                  !.rx = ReadTail(data.rx),
                  !.state = IF ReadHead(data.rx) = <<>> THEN "returned" ELSE "draining"]
    /\ UNCHANGED <<op, result, sessionVars>>

CleanNext ==
    \/ CleanIteration
    \/ CleanLeave
    \/ CleanDrain

CleanSpec == CleanInit /\ [][CleanNext]_vars

(***************************************************************************)
(* Claims about the cleaning cycle (CleanSpec)                             *)
(***************************************************************************)
\* the buffer after the first k reads holds '=' followed by CRLF
CleanAfter(k) == Contains(Joined(SubSeq(data.reads, 1, k)), <<61, 13, 10>>)
\* the test held on the three iterations that end with iteration k
ThreeUpTo(k) == k >= 3 /\ \A j \in (k - 2)..k : data.tests[j]

\* C28: _read_clean_prompt writes exactly one lone CRLF before each read to
\* the prompt and nothing else; it leaves its loop only after the clean-prompt
\* test (the buffer holds '=' followed by CRLF) held on three consecutive
\* iterations; after the third match and before it returns it reads the
\* transport until a read is empty.
C28_CleaningCycle ==
    op = "_read_clean_prompt" =>
        /\ Len(data.tx) = Len(data.reads)
        /\ \A k \in 1..Len(data.tx) : data.tx[k] = CR
        /\ \A k \in 1..Len(data.tests) : data.tests[k] = CleanAfter(k)
        /\ \A k \in 1..(Len(data.tests) - 1) : ~ThreeUpTo(k)
        /\ data.state \in {"draining", "returned"} =>
              /\ Len(data.tests) = Len(data.reads)
              /\ ThreeUpTo(Len(data.tests))
        /\ data.state = "cleaning" => data.drained = <<>>
        /\ \A k \in 1..(Len(data.drained) - 1) : data.drained[k] # <<>>
        /\ data.state = "draining" =>
              \A k \in 1..Len(data.drained) : data.drained[k] # <<>>
        /\ data.state = "returned" =>
              /\ data.drained # <<>>
              /\ data.drained[Len(data.drained)] = <<>>
              /\ _read_clean_prompt(data.script).err = "none"
              /\ ~_read_clean_prompt(data.script).hung
              /\ _read_clean_prompt(data.script).tx = data.tx
              /\ _read_clean_prompt(data.script).rx = data.rx
        /\ data.state = "raised" => _read_clean_prompt(data.script).err = "TypeError"
        /\ data.state = "hung" => _read_clean_prompt(data.script).hung
\* the test held three times, the third time on a read that added nothing,
\* and a pending prompt was drained before the cycle returned
C28_Witness ==
    /\ op = "_read_clean_prompt"
    /\ data.state = "returned"
    /\ Len(data.tests) = 3
    /\ data.reads[3] = <<>>
    /\ Len(data.drained) = 2
    /\ data.drained[1] # <<>>

(***************************************************************************)
(* The level specification: access_level called once on a transport that   *)
(* holds up to MaxPrompts replies                                          *)
(***************************************************************************)
MaxPrompts == 3
\* a read that times out, the four prompts, '=' and '>' alone, and "OK"
LevelChunks == {Silence, P0, P1, P2, PCal, <<61>>, <<62>>, <<79, 75>>}
LevelScripts == SeqsUpTo(LevelChunks, MaxPrompts)

LevelInit ==
    /\ data \in LevelScripts
    /\ op = "none"
    /\ result = Ok(<<>>)
    /\ SessionInit

AccessLevel == Apply("access_level", access_level(data))

LevelNext == AccessLevel

LevelSpec == LevelInit /\ [][LevelNext]_vars

\* the prompt tails of the levels 1, 2 and 3
PromptTails == << <<61, 62>>, <<61, 62, 62>>, <<61, 61, 62, 62>> >>
TailsShown == {l \in 1..3 : Contains(ReadAt(1) \o ReadAt(2), PromptTails[l])}
Highest(S) == CHOOSE x \in S : \A y \in S : y <= x

\* C29: access_level writes exactly two CRLF and reads two replies; it returns
\* (3, 'CAL') if the concatenated replies hold '==>>', otherwise (2, '2AC') if
\* they hold '=>>', otherwise (1, 'ACC') if they hold '=>', otherwise (0, '');
\* the level is one of 0..3 and the highest whose prompt tail occurs in the
\* replies.
C29_AccessLevelDetection ==
    op = "access_level" =>
        /\ result.tx = <<CR, CR>>
        /\ result.rx = SubSeq(data, 3, Len(data))
        /\ <<result.val, result.desc>> =
              (IF 3 \in TailsShown THEN <<3, "CAL">>
               ELSE IF 2 \in TailsShown THEN <<2, "2AC">>
               ELSE IF 1 \in TailsShown THEN <<1, "ACC">>
               ELSE <<0, "">>)
        /\ result.val \in 0..3
        /\ result.val = Highest(TailsShown \cup {0})
        /\ result.val = ShownLevel(ReadAt(1), ReadAt(2))
\* the level-2 tail appears only where the two replies meet
C29_Witness ==
    /\ op = "access_level"
    /\ data = <<P1, <<62>>, P0>>
    /\ result.val = 2
    /\ result.desc = "2AC"
    /\ result.rx = <<P0>>

(***************************************************************************)
(* The surprise specification: the four frame parsers on checksum-valid    *)
(* frames whose content is not what a relay should send: a count that runs *)
(* past the end of the frame, a protocol family above 6, a channel type    *)
(* without decoder, digital names without '*'                              *)
(***************************************************************************)
\* a Relay Definition whose protocol count is over by d.over
RdOverFrame(d) ==
    MkFrame(192, <<Len(d.protocols) + d.over, 0, 0, 0>> \o ProtocolBytes(d.protocols))
\* one analog channel IA of the given type, the analogs at aoff, one digital
\* bank at doff
ChannelConfig(d) ==
    MkFrame(193, <<1, 0, 0, 1, 1, 1, 0, 0, d.aoff, 0, 0, 0, d.doff>>
                 \o NameIA \o <<0, 0, 0, 0, d.type, 255, 0, 0>>)
\* the sample: a status byte, eight analog bytes, a digital byte at offset 12
ChannelData == MkFrame(209, <<0, 0, 0, 0, 0, 0, 0, 0, 0, 177>>)

NoArgument == <<>>
SurpriseInputs ==
    {[parser |-> "relay_definition_block", bytes |-> RdOverFrame(d), about |-> d,
      definition |-> NoArgument, dna_def |-> NoArgument]
        : d \in [protocols : ProtocolRecords, over : {0, 1}]}
    \cup {[parser |-> "fast_meter_configuration_block", bytes |-> MkFrame(193, pl),
           about |-> NoArgument, definition |-> NoArgument, dna_def |-> NoArgument]
            : pl \in FmPayloads}
    \cup {[parser |-> "fast_op_configuration_block", bytes |-> MkFrame(206, pl),
           about |-> NoArgument, definition |-> NoArgument, dna_def |-> NoArgument]
            : pl \in FoPayloads}
    \cup {[parser |-> "fast_meter_block", bytes |-> ChannelData, about |-> d,
           definition |-> fast_meter_configuration_block(ChannelConfig(d)).val,
           dna_def |-> <<row>>]
            : d \in [type : 0..4, aoff : {4, 12}, doff : {12, 14}],
              row \in {S5Row, PlainRow}}

SurpriseInit ==
    /\ data \in SurpriseInputs
    /\ op = "none"
    /\ result = Ok(<<>>)
    /\ SessionInit

ParseDefinition ==
    /\ data.parser = "relay_definition_block"
    /\ Apply("relay_definition_block", relay_definition_block(data.bytes))
ParseMeterConfiguration ==
    /\ data.parser = "fast_meter_configuration_block"
    /\ Apply("fast_meter_configuration_block", fast_meter_configuration_block(data.bytes))
ParseOperateConfiguration ==
    /\ data.parser = "fast_op_configuration_block"
    /\ Apply("fast_op_configuration_block", fast_op_configuration_block(data.bytes))
ParseMeterBlock ==
    /\ data.parser = "fast_meter_block"
    /\ Apply("fast_meter_block",
             fast_meter_block(data.bytes, data.definition, data.dna_def))

SurpriseNext ==
    \/ ParseDefinition
    \/ ParseMeterConfiguration
    \/ ParseOperateConfiguration
    \/ ParseMeterBlock

SurpriseSpec == SurpriseInit /\ [][SurpriseNext]_vars

FrameParsers == BinaryParsers \cup {"fast_meter_block"}

\* C30: for every checksum-valid frame handed to relay_definition_block,
\* fast_meter_configuration_block, fast_op_configuration_block or
\* fast_meter_block the parser returns a complete record or raises a
\* ValueError-class parse failure (the typed DnaDigitalsMisMatch of a bank
\* mismatch counted with them); a structural surprise never surfaces as
\* another exception kind, and no protocol record of a returned Relay
\* Definition is built from the values of another record.
C30_ParseFailuresAreValueErrors ==
    (op \in FrameParsers /\ _cast_bytearray(data.bytes).err = "none") =>
        /\ result.err \in {"none", "ValueError", "DnaDigitalsMisMatch"}
        /\ (op = "relay_definition_block" /\ result.err = "none") =>
              \A k \in 1..Len(result.val.protocols) :
                  /\ k <= Len(data.about.protocols)
                  /\ data.about.protocols[k].family <= 6
                  /\ result.val.protocols[k].type = FamilyName(data.about.protocols[k].family)

(***************************************************************************)
(* LayoutSpec: fast_meter_configuration_block on configuration frames that *)
(* carry analog descriptors of 10 bytes and calculation descriptors of 11  *)
(* bytes; the bytes of a calculation descriptor are all different, so that *)
(* a decoded value tells the position it was read from                     *)
(***************************************************************************)
MaxAnalogs == 2
MaxCalcs == 2
LayoutNames == {<<73, 65, 0, 0, 0, 0>>, <<86, 66, 67, 0, 0, 0>>}
LayoutTypes == {<<0, 255>>, <<1, 0>>}
LayoutOffsets == {<<0, 0>>, <<1, 4>>}
AnalogDescriptors == {n \o t \o s : n \in LayoutNames, t \in LayoutTypes, s \in LayoutOffsets}
\* eleven consecutive bytes from base on
CalcDescriptor(base) == [k \in 1..11 |-> base + k - 1]
CalcDescriptors == {CalcDescriptor(base) : base \in {16, 32, 48, 64}}
RECURSIVE Flatten(_)
Flatten(seqs) == IF seqs = <<>> THEN <<>> ELSE Head(seqs) \o Flatten(Tail(seqs))
LayoutInputs ==
    [analogs : UNION {[1..n -> AnalogDescriptors] : n \in 1..MaxAnalogs},
     calcs : {c \in UNION {[1..n -> CalcDescriptors] : n \in 0..MaxCalcs} :
                \A i, j \in DOMAIN c : i # j => c[i] # c[j]}]
LayoutFrame(d) ==
    MkFrame(193, <<0, 0, 0, Len(d.analogs), 1, 0, Len(d.calcs), 0, 4, 0, 0, 0, 4>>
                 \o Flatten(d.analogs) \o Flatten(d.calcs))

LayoutInit ==
    /\ data \in LayoutInputs
    /\ op = "none"
    /\ result = Ok(<<>>)
    /\ SessionInit

MeterConfigurationLayout ==
    Apply("fast_meter_configuration_block", fast_meter_configuration_block(LayoutFrame(data)))

LayoutNext == MeterConfigurationLayout

LayoutSpec == LayoutInit /\ [][LayoutNext]_vars

(***************************************************************************)
(* Claims about the descriptor layout (LayoutSpec)                         *)
(***************************************************************************)
\* the frame really has descriptor k (from 0) at offset 16 + 10k
DescriptorAt(k) == PySlice(LayoutFrame(data), 16 + 10 * k, 26 + 10 * k)

\* C31: the k-th analog descriptor is decoded from the 10 bytes at offset
\* 16 + 10k: the name is the non-zero bytes of bytes 0..5, channeltype is
\* byte 6, factortype is byte 7 and scaleoffset is the big-endian value of
\* bytes 8..9.
C31_AnalogDescriptorLayout ==
    (op = "fast_meter_configuration_block") =>
        /\ result.err = "none"
        /\ Len(result.val.analogchannels) = Len(data.analogs)
        /\ \A k \in 0..(Len(data.analogs) - 1) :
              LET desc == DescriptorAt(k)
                  ch == result.val.analogchannels[k + 1]
              IN /\ desc = data.analogs[k + 1]
                 /\ ch.name = NonZero(SubSeq(desc, 1, 6))
                 /\ ch.channeltype = desc[7]
                 /\ ch.factortype = desc[8]
                 /\ ch.scaleoffset = SignedBE(SubSeq(desc, 9, 10))

\* the bytes one decoded calculation block was read from, field by field
CalcFields(blk) ==
    <<{blk.line}, {blk.type},
      {blk.skewoffset[i] : i \in DOMAIN blk.skewoffset},
      {blk.rsoffset[i] : i \in DOMAIN blk.rsoffset},
      {blk.xsoffset[i] : i \in DOMAIN blk.xsoffset},
      {blk.iaindex}, {blk.ibindex}, {blk.icindex},
      {blk.vaindex}, {blk.vbindex}, {blk.vcindex}>>
CalcBytes(blk) == UNION {CalcFields(blk)[i] : i \in 1..11}
DescriptorBytes(desc) == {desc[i] : i \in DOMAIN desc}

\* C32: the calculation descriptors are decoded from consecutive regions of
\* 11 bytes that do not overlap (descriptor j+1 starts where descriptor j
\* ends, and every byte read for descriptor j lies inside its own region),
\* and inside one descriptor the fields are read from pairwise disjoint
\* byte positions.
C32_CalcDescriptorLayout ==
    (op = "fast_meter_configuration_block") =>
        /\ result.err = "none"
        /\ Len(result.val.calcblocks) = Len(data.calcs)
        /\ \A j \in DOMAIN data.calcs :
              LET blk == result.val.calcblocks[j]
              IN /\ blk.line = data.calcs[j][1]
                 /\ CalcBytes(blk) \subseteq DescriptorBytes(data.calcs[j])
                 /\ \A f, g \in 1..11 :
                       f # g => CalcFields(blk)[f] \cap CalcFields(blk)[g] = {}

(***************************************************************************)
(* DnaSpec: relay_dna_block on DNA replies of up to MaxRows lines, each    *)
(* line one of the shapes a relay or a disturbed link can produce          *)
(***************************************************************************)
MaxRows == 2
DnaKinds == {"good", "bad_sum", "short", "no_comma", "dirty", "lower", "long", "not_hex"}
DnaLineChoices == [row : {Row1, PlainRow}, kind : DnaKinds]
\* the checksum field of a row, as the relay sends it
DnaSum(row, delta) == <<34>> \o Hex4(eval_checksum(QuotedRow(row), FALSE) + delta) \o <<34>>
\* the first name with a BEL in front of it
Dirtied(row) == [row EXCEPT ![1] = <<7>> \o row[1]]
Lowered(row) == [k \in DOMAIN row |-> Lower(row[k])]
DnaText(c) ==
    CASE c.kind = "good" -> QuotedRow(c.row) \o DnaSum(c.row, 0) \o CR
      [] c.kind = "bad_sum" -> QuotedRow(c.row) \o DnaSum(c.row, 1) \o CR
      [] c.kind = "short" ->
            QuotedRow(SubSeq(c.row, 1, 7)) \o DnaSum(SubSeq(c.row, 1, 7), 0) \o CR
      [] c.kind = "no_comma" -> <<34>> \o c.row[1] \o <<34>> \o CR
      [] c.kind = "dirty" -> QuotedRow(Dirtied(c.row)) \o DnaSum(c.row, 0) \o CR
      [] c.kind = "lower" -> QuotedRow(Lowered(c.row)) \o DnaSum(c.row, 0) \o CR
      [] c.kind = "long" -> QuotedRow(c.row) \o DnaSum(c.row, 0) \o <<44, 34, 88, 34>> \o CR
      [] c.kind = "not_hex" -> QuotedRow(c.row) \o <<34, 90, 90, 90, 90, 34>> \o CR
RECURSIVE DnaTexts(_)
DnaTexts(lines) == IF lines = <<>> THEN <<>> ELSE DnaText(Head(lines)) \o DnaTexts(Tail(lines))

DnaInit ==
    /\ data \in UNION {[1..n -> DnaLineChoices] : n \in 0..MaxRows}
    /\ op = "none"
    /\ result = Ok(<<>>)
    /\ SessionInit

RelayDnaBlock == Apply("relay_dna_block", relay_dna_block(DnaReply(DnaTexts(data))))

DnaNext == RelayDnaBlock

DnaSpec == DnaInit /\ [][DnaNext]_vars

(***************************************************************************)
(* Claims about the DNA rows (DnaSpec)                                     *)
(***************************************************************************)
\* the lines with nine fields or more whose ninth field is the checksum of
\* the text "n1",...,"n8", of the cleaned, uppercased names
DnaKept == {"good", "dirty", "lower", "long"}
RECURSIVE DnaExpected(_)
DnaExpected(lines) ==
    IF lines = <<>> THEN <<>>
    ELSE (IF Head(lines).kind \in DnaKept THEN <<Head(lines).row>> ELSE <<>>)
         \o DnaExpected(Tail(lines))
CleanName(name) == \A i \in DOMAIN name : name[i] >= 32 /\ name[i] <= 127

\* C33: relay_dna_block returns the rows in the order of the input lines;
\* every row has exactly 8 names free of characters outside 0x20..0x7F; a
\* row is returned only for a line whose ninth field, read as hex, equals
\* the checksum of the text "n1",...,"n8", of its uppercased, cleaned
\* names; a line with fewer than 9 fields or a failing checksum gives no row.
C33_DnaRows ==
    (op = "relay_dna_block") =>
        /\ result.err = "none"
        /\ result.val = DnaExpected(data)
        /\ \A r \in DOMAIN result.val :
              /\ Len(result.val[r]) = 8
              /\ \A k \in 1..8 : CleanName(result.val[r][k])
              /\ \E c \in {data[i] : i \in DOMAIN data} :
                    /\ c.row = result.val[r]
                    /\ c.kind \in DnaKept

C33_Witness ==
    /\ op = "relay_dna_block"
    /\ Len(data) = 2
    /\ data[1].kind = "bad_sum"
    /\ data[2].kind = "dirty"
    /\ result.val = <<data[2].row>>

(***************************************************************************)
(* TrailerSpec: _cast_bytearray on replies made of a checksum-valid frame  *)
(* and what a relay sends after it; the payloads include '=' (0x3D), a     *)
(* checksum of 0x3D and a frame whose last two bytes are CR LF             *)
(***************************************************************************)
MaxPayload == 3
TrailerCommands == {193, 209}
TrailerPayloads == SeqsUpTo({0, 13, 61}, MaxPayload) \cup {<<145, 13>>, <<210>>}
ReplyTrailers == {<<>>, CR, PROMPT, CR \o LEVEL_1}
TrailerFrame(d) == MkFrame(d.cmd, d.payload)

TrailerInit ==
    /\ data \in [cmd : TrailerCommands, payload : TrailerPayloads, trailer : ReplyTrailers]
    /\ op = "none"
    /\ result = Ok(<<>>)
    /\ SessionInit

CastReply == Apply("_cast_bytearray", _cast_bytearray(TrailerFrame(data) \o data.trailer))

TrailerNext == CastReply

TrailerSpec == TrailerInit /\ [][TrailerNext]_vars

(***************************************************************************)
(* Claims about the trailer (TrailerSpec)                                  *)
(***************************************************************************)
\* C34: for a reply made of a checksum-valid frame of declared length L and
\* an optional CRLF and prompt, _cast_bytearray validates the frame and
\* returns a buffer that begins with all L bytes of it, also when a payload
\* or checksum byte is 0x3D or the frame ends with 0x0D 0x0A.
C34_TrailerNeverCutsFrame ==
    (op = "_cast_bytearray") =>
        /\ _validate_checksum(TrailerFrame(data)) = "none"
        /\ result.err = "none"
        /\ Len(result.val) >= Len(TrailerFrame(data))
        /\ SubSeq(result.val, 1, Len(TrailerFrame(data))) = TrailerFrame(data)

(***************************************************************************)
(* Claims about the polled command (Spec)                                  *)
(***************************************************************************)
ConfigurationCommands == {FM_CONFIG_BLOCK, FM_DEMAND_CONFIG_BLOCK, FM_PEAK_CONFIG_BLOCK}
\* the binary requests among the messages a call wrote
BinaryRequests == {wire[k] : k \in {i \in 1..Len(wire) : Len(wire[i]) >= 2 /\ wire[i][1] = 165}}
DefaultPairs(self) ==
    << <<self.fmconfigcommand1, self.fmcommand1>>,
       <<self.fmconfigcommand2, self.fmcommand2>>,
       <<self.fmconfigcommand3, self.fmcommand3>> >>

\* C35: whatever session operations came before, the request poll_fast_meter
\* writes is a Fast Meter data command, A5 D1 by default or the command the
\* relay advertised for the regular message, never a configuration command
\* (A5 C1, A5 C2, A5 C3); before discovery the (configuration, data) pairs
\* of the client are (A5C1, A5D1), (A5C2, A5D2), (A5C3, A5D3).
C35_PollWritesDataCommand ==
    /\ (call.name = "poll_fast_meter") =>
          \A req \in BinaryRequests :
             /\ SubSeq(req, 1, 2) \notin ConfigurationCommands
             /\ req = FAST_METER_REGULAR \o CR
    /\ (client.fast_meter_supported = FALSE /\ client.fastMeterDef = None) =>
          DefaultPairs(client) =
             << <<FM_CONFIG_BLOCK, FAST_METER_REGULAR>>,
                <<FM_DEMAND_CONFIG_BLOCK, FAST_METER_DEMAND>>,
                <<FM_PEAK_CONFIG_BLOCK, FAST_METER_PEAK_DEMAND>> >>

(***************************************************************************)
(* Claims about the placeholder name (MeterSpec)                           *)
(***************************************************************************)
\* the names of a DNA map
NamesOf(dna_def) == {dna_def[i][j] : <<i, j>> \in (1..Len(dna_def)) \X (1..8)}
\* the data frame carries one digital byte per bank
CarriesBanks(bytes, definition) ==
    Len(bytes) >= definition.digitaloffset + definition.numdigitalbank + 1

\* C36: for every DNA map with as many rows as numdigitalbank,
\* fast_meter_block on a checksum-valid data frame returns a digitals map
\* whether or not a point is named '*'; when no point is named '*' the map
\* holds every named point.
C36_DigitalsWithoutPlaceholder ==
    (/\ MeterDecoded
     /\ ChecksumValid(data.bytes)
     /\ CarriesBanks(data.bytes, data.definition)
     /\ data.definition.numdigitalbank = Len(data.dna_def))
    => /\ result.err = "none"
       /\ DOMAIN result.val.digitals = NamesOf(data.dna_def) \ {Star}

(***************************************************************************)
(* Claims about the point number (FastOpSpec)                              *)
(***************************************************************************)
\* the number of points the client's configuration holds for a control type
ConfiguredPoints(control_type) ==
    IF Lower(control_type) = BREAKER_BIT THEN Len(client.fastOpDef.val.breakerconfig)
    ELSE Len(client.fastOpDef.val.remotebitconfig)

\* C37: prepare_fastop_command produces a frame only for a point number n
\* with 1 <= n <= the number of configured points of the requested control
\* type; for n = 0 and for n above that number it raises an error and
\* produces no frame, so point 0 is never taken for the last configured point.
C37_FastOpPointRange ==
    (/\ op = "prepare_fastop_command"
     /\ FirstNumber(data.control_point).err = "none"
     /\ result.err = "none")
    => /\ FirstNumber(data.control_point).val >= 1
       /\ FirstNumber(data.control_point).val <= ConfiguredPoints(data.control_type)

(***************************************************************************)
(* Claims about the keys of the ID block (IdSpec)                          *)
(***************************************************************************)
\* C38: whatever the reply, the mapping relay_id_block returns holds each of
\* the keys FID, BFID, CID, DEVID, DEVCODE, PARTNO, CONFIG and SPECIAL, with
\* the empty string for a key whose row is not in the reply, so the identity
\* capture of autoconfig finds every key it reads.
C38_IdResultTotal ==
    op = "relay_id_block" =>
        /\ result.err = "none"
        /\ \A k \in 1..Len(RE_ID_BLOCKS) :
              /\ RE_ID_BLOCKS[k].key \in DOMAIN result.val
              /\ k \notin IdPresent => result.val[RE_ID_BLOCKS[k].key] = <<>>
        /\ \A k \in 1..Len(IdAttributes) : IdAttributes[k] \in DOMAIN result.val

PromptIn(k) == Contains(data.reads[k], <<61, 13, 10>>)

\* C40: in _read_clean_prompt the counter is back at zero after every
\* iteration whose newly read bytes hold no idle prompt, so the cycle ends
\* only after three successive reads that each delivered an idle prompt; one
\* idle prompt followed by reads that return nothing or other text does not
\* end it.
C40_ThreeSeparatePrompts ==
    op = "_read_clean_prompt" =>
        /\ (/\ data.state = "cleaning"
            /\ data.reads # <<>>
            /\ ~PromptIn(Len(data.reads))) => data.count = 0
        /\ data.state \in {"draining", "returned"} =>
              /\ Len(data.reads) >= CleanCount
              /\ \A k \in (Len(data.reads) - CleanCount + 1)..Len(data.reads) : PromptIn(k)

====
